---- MODULE Spec2Model ----
(***************************************************************************)
(* storm-thunder: the deployment orchestrator (storm/thunder/base.py), the *)
(* plan driver and section planner (storm/thunder/manager.py) and the      *)
(* helpers they call (storm/utils/util.py).                                *)
(*                                                                         *)
(* Node names are sequences of one-character strings, so that the string   *)
(* operations of the code (split, compare, digit runs) are computed.       *)
(***************************************************************************)
EXTENDS Naturals, Integers, Sequences, FiniteSets, TLC

VARIABLES
    \* ---- deploy() (base.py) ----
    pc,                 \* position of the control thread inside deploy()
    deployments,        \* the task list given to deploy()
    nodes,              \* the node list (names); naturally sorted once deploy() began
    connectedClients,   \* result of pool.map(connectClient): per index "pending" | "client" | "None"
    clientState,        \* per index, the SSH session: "unconnected" | "open" | "closed"
    clients,            \* node name -> index of the session stored under that name
    deploymentIndex,    \* index of the task the for loop is at
    workers,            \* workers[t][i]: nodeDeploy of task t on node i: "idle" | "queued" | "running" | "success" | "error"
    clusterRan,         \* clusterRan[t]: how often the cluster task t had its run invoked
    ranOnClosed,        \* a run was invoked with a session that was already closed
    deploymentResults,  \* the ledger: sequence of steps, each a map node name -> result
    nodeOrNodes,        \* the node list deploy() was called with
    clusterOutcome,     \* clusterOutcome[t]: what the run of cluster task t was given and how it ended
    nodeClientTuples,   \* nodeClientTuples[t][i]: the (node, session) nodeDeploy of task t was called with
    \* ---- main() (manager.py) ----
    mainPc,             \* position inside main(): "none" when deploy() is called directly
    nodesInformation,   \* NodesInfoMap.nodes, as the sequence of its keys in dict order
    nodeInfos,          \* NodesInfoMap.nodes: name -> the BaseNodeInfo stored under it
    deploymentInfos,    \* the loaded plan: sequence of [deployment, nodes]
    deploymentSections, \* result of getDeploymentSections
    sectionIndex,       \* index of the section main() is at
    exitCode,           \* what main() returned: -1 while running
    deployCalls,        \* the indexes of the sections main() called deploy() for, in call order
    sectionErrors,      \* numberOfErrors of the ledgers those calls returned, in return order
    \* ---- callers of the ledger ----
    lastAdded,          \* the last addResult/addResults call: its results and numberOfErrors before it
    \* ---- callers of the registry ----
    addedNodes,         \* the nodes NodesInfoMap.add was called with, in call order
    resolved,           \* the last getNodesByNames call on the registry as it is: its names and result
    \* ---- callers of the plan loader (configuration.py) ----
    hjsonPlan,          \* the plan the loader is given, as entries [name, parameters]
    loadResults,        \* what each way of loading that plan returned
    tokenLoop,          \* what the token loop made of each text of the plan in syntax 2
    \* ---- utilities and tasks on their own ----
    timer,              \* a Timer process (util.py): its fields, its position in run(), the calls it made
    remoteFiles,        \* the files of a node the ssh tasks work on: path -> content
    taskRuns,           \* the runs of ssh tasks on that node, in order
    temporaryDirectory, \* with RemoteTemporaryDirectory(client) (client.py): the statement under way, the commands the client ran, the statements that ended
    passwordRuns,       \* two runs on nodes that differ in their passwords only: the nodes and the ledger of each
    etcHosts            \* an EtcHosts object (util.py): ip -> aliases, what it was made with, the add calls made on it

deployLog == <<nodeOrNodes, clusterOutcome, nodeClientTuples>>
deployVars == <<pc, deployments, nodes, connectedClients, clientState, clients,
                deploymentIndex, workers, clusterRan, ranOnClosed, deploymentResults, deployLog>>
mainVars == <<mainPc, nodesInformation, nodeInfos, deploymentInfos, deploymentSections,
              sectionIndex, exitCode>>
mainLog == <<deployCalls, sectionErrors>>
loadVars == <<hjsonPlan, loadResults, tokenLoop>>
toolVars == <<temporaryDirectory, passwordRuns, etcHosts>>
utilVars == <<timer, remoteFiles, taskRuns, toolVars>>
callVars == <<addedNodes, resolved, loadVars, utilVars>>
vars == <<deployVars, mainVars, mainLog, lastAdded, callVars>>

----------------------------------------------------------------------------
(* Bounds of the model *)

MaxNodes == 3
MaxTasks == 2
MaxSteps == 2
MaxResults == 2
MaxPlan == 4
MaxMainPlan == 2
MaxAdds == 3
MaxEntries == 3
\* largest repeat a Timer is made with
MaxRepeat == 3
\* calls after which a Timer is no longer followed
MaxCalls == 5
\* task runs on one node
MaxRuns == 3
\* with statements that are followed
MaxWith == 3
\* tasks that are recorded in a ledger
MaxRecords == 2
\* adds to one EtcHosts object
MaxAliases == 2

----------------------------------------------------------------------------
(* Strings *)

\* the characters the node names use, in ASCII order
CharOrder == <<"-", ".", "/", "0", "1", "2", "3", "d", "e", "n">>

Ord(c) == CHOOSE k \in 1..Len(CharOrder) : CharOrder[k] = c

Digits == {"0", "1", "2", "3"}

DigitValue(c) == Ord(c) - Ord("0")

\* str < str of Python: lexicographic on the character codes
RECURSIVE StringLess(_, _)
StringLess(a, b) ==
    IF b = <<>> THEN FALSE
    ELSE IF a = <<>> THEN TRUE
    ELSE IF Head(a) = Head(b) THEN StringLess(Tail(a), Tail(b))
    ELSE Ord(Head(a)) < Ord(Head(b))

\* int(portion) for a run of digits
RECURSIVE IntOf(_)
IntOf(s) == IF s = <<>> THEN 0 ELSE IntOf(SubSeq(s, 1, Len(s) - 1)) * 10 + DigitValue(s[Len(s)])

StrToken(s) == [isInt |-> FALSE, num |-> 0, str |-> s]
IntToken(n) == [isInt |-> TRUE, num |-> n, str |-> <<>>]

\* re.compile("(c)").split(string): the pieces between the separators c, with
\* the separators themselves kept as pieces
RECURSIVE SplitKeep(_, _, _)
SplitKeep(string, sep, current) ==
    IF string = <<>> THEN <<current>>
    ELSE IF Head(string) = sep
         THEN <<current, <<sep>>>> \o SplitKeep(Tail(string), sep, <<>>)
         ELSE SplitKeep(Tail(string), sep, Append(current, Head(string)))

\* re.compile("(\d+)").split(subpart): alternating non-digit and digit runs
RECURSIVE SplitDigits(_, _)
SplitDigits(string, current) ==
    IF string = <<>> THEN <<current>>
    ELSE IF current # <<>> /\ ((Head(string) \in Digits) # (current[1] \in Digits))
         THEN <<current>> \o SplitDigits(Tail(string), <<Head(string)>>)
         ELSE SplitDigits(Tail(string), Append(current, Head(string)))

\* lines 949-954: the key items of the portions of one subpart
RECURSIVE PortionsKey(_)
PortionsKey(portions) ==
    IF portions = <<>> THEN <<>>
    ELSE LET portion == Head(portions)
         IN  (IF portion = <<>> THEN <<>>
              ELSE IF \A k \in 1..Len(portion) : portion[k] \in Digits
                   THEN <<IntToken(IntOf(portion))>>
                   ELSE <<StrToken(portion)>>) \o PortionsKey(Tail(portions))

\* line 948: for subpart in subpartPattern.split(part)
RECURSIVE SubpartsKey(_)
SubpartsKey(subparts) ==
    IF subparts = <<>> THEN <<>>
    ELSE PortionsKey(SplitDigits(Head(subparts), <<>>)) \o SubpartsKey(Tail(subparts))

\* line 947: for part in partPattern.split(string)
RECURSIVE PartsKey(_)
PartsKey(parts) ==
    IF parts = <<>> THEN <<>>
    ELSE SubpartsKey(SplitKeep(Head(parts), "-", <<>>)) \o PartsKey(Tail(parts))

\* a key that is the name itself: plain string order
naturalSortKeyPlain(string) == <<StrToken(string)>>

\* util.naturalSortKey
naturalSortKey(string) == PartsKey(SplitKeep(string, "/", <<>>))

\* Python 2 ordering of two key items: every int sorts before every str
TokenLess(x, y) ==
    IF x.isInt /\ y.isInt THEN x.num < y.num
    ELSE IF x.isInt THEN TRUE
    ELSE IF y.isInt THEN FALSE
    ELSE StringLess(x.str, y.str)

\* list < list of Python
RECURSIVE KeyLess(_, _)
KeyLess(a, b) ==
    IF b = <<>> THEN FALSE
    ELSE IF a = <<>> THEN TRUE
    ELSE IF Head(a) = Head(b) THEN KeyLess(Tail(a), Tail(b))
    ELSE TokenLess(Head(a), Head(b))

NaturalLess(a, b) == KeyLess(naturalSortKey(a), naturalSortKey(b))

\* sorted(nodes, key=lambda node: naturalSortKey(node.name)): a stable sort
RECURSIVE InsertNatural(_, _)
InsertNatural(name, sortedNames) ==
    IF sortedNames = <<>> THEN <<name>>
    ELSE IF NaturalLess(name, Head(sortedNames)) THEN <<name>> \o sortedNames
    ELSE <<Head(sortedNames)>> \o InsertNatural(name, Tail(sortedNames))

RECURSIVE SortNodes(_)
SortNodes(nodeList) ==
    IF nodeList = <<>> THEN <<>>
    ELSE InsertNatural(nodeList[Len(nodeList)], SortNodes(SubSeq(nodeList, 1, Len(nodeList) - 1)))

\* sorted(self.items()): the names in string order
RECURSIVE InsertString(_, _)
InsertString(name, sortedNames) ==
    IF sortedNames = <<>> THEN <<name>>
    ELSE IF StringLess(name, Head(sortedNames)) THEN <<name>> \o sortedNames
    ELSE <<Head(sortedNames)>> \o InsertString(name, Tail(sortedNames))

\* the names as the dict yields them, unsorted
SortNamesMutant(names) == names

RECURSIVE SortNames(_)
SortNames(names) ==
    IF names = <<>> THEN <<>>
    ELSE InsertString(names[Len(names)], SortNames(SubSeq(names, 1, Len(names) - 1)))

\* the node names of the inventory
n1  == <<"n", "1">>
n2  == <<"n", "2">>
n10 == <<"n", "1", "0">>
n2d == <<"n", "2", ".", "d">>
n3d == <<"n", "3", ".", "d">>
n3e == <<"n", "3", ".", "e">>
\* names that are asked for: a short name, and a name no node has
n3  == <<"n", "3">>
n0  == <<"n", "0">>

NodeNames == {n1, n2, n10}

NameSet(nodeList) == {nodeList[k] : k \in 1..Len(nodeList)}

\* Python's None
None == "None"

\* no way of loading the plan was taken
NoLoads ==
    [way \in {"canonical", "shorthand", "compact", "serializable"} |->
        [done |-> FALSE, raised |-> FALSE, deployments |-> <<>>]]

\* no text went through the token loop
NoItems == [way \in {"shorthand", "compact"} |-> [raised |-> FALSE, deploymentItems |-> <<>>]]

\* no Timer was made
NoTimer == [pc |-> "none"]

\* no with statement, no run and no EtcHosts object
InitToolsIdle ==
    /\ temporaryDirectory = [pc |-> "none"]
    /\ passwordRuns = [nodes |-> <<>>]
    /\ etcHosts = [calls |-> <<>>]

InitUtilIdle ==
    /\ timer = NoTimer
    /\ remoteFiles = <<>>
    /\ taskRuns = <<>>
    /\ InitToolsIdle

----------------------------------------------------------------------------
(* The ledger: DeploymentResults, DeploymentResult, DeploymentErrorResult *)

\* the task recorded for a failed connect phase
NodeDeploymentException == [id |-> 0, kind |-> "NodeDeploymentException"]

DeploymentResult(deployment, node) == [deployment |-> deployment, node |-> node, error |-> FALSE]

DeploymentErrorResult(deployment, node) == [deployment |-> deployment, node |-> node, error |-> TRUE]

\* DeploymentResults(): no steps
NewDeploymentResults == [steps |-> <<>>]

\* {result.node.name: result for result in results}: of two results with the
\* same node name the later one stays
StepOf(results) ==
    [name \in {results[k].node : k \in 1..Len(results)} |->
        results[CHOOSE k \in 1..Len(results) :
                    /\ results[k].node = name
                    /\ \A j \in 1..Len(results) : results[j].node = name => j <= k]]

\* DeploymentResults.addResult
addResult(results, result) == [results EXCEPT !.steps = Append(@, StepOf(<<result>>))]

\* a ledger that appends every result of the list as a step of its own
addResultsMutant(results, resultList) ==
    [results EXCEPT !.steps = @ \o [k \in 1..Len(resultList) |-> StepOf(<<resultList[k]>>)]]

\* DeploymentResults.addResults
addResults(results, resultList) == [results EXCEPT !.steps = Append(@, StepOf(resultList))]

ErrorsOfStep(step) == Cardinality({name \in DOMAIN step : step[name].error})

RECURSIVE SumErrors(_)
SumErrors(steps) == IF steps = <<>> THEN 0 ELSE ErrorsOfStep(Head(steps)) + SumErrors(Tail(steps))

\* a count of the steps holding an error instead of the error records
numberOfErrorsMutant(results) ==
    Cardinality({s \in 1..Len(results.steps) : ErrorsOfStep(results.steps[s]) > 0})

\* DeploymentResults.numberOfErrors
numberOfErrors(results) == SumErrors(results.steps)

----------------------------------------------------------------------------
(* deploy() *)

Deployment(id) == [id |-> id, kind |-> "node"]

\* the run of a cluster task was not invoked
NotRun == [outcome |-> "none", node |-> None, nodes |-> <<>>, clients |-> <<>>]

ClusterDeployment(id) == [id |-> id, kind |-> "cluster"]

\* a check that stops only when no node connected
ConnectionProblemMutant(cc) == cc # <<>> /\ \A i \in 1..Len(cc) : cc[i] = "None"

\* any([not client for _, client in connectedClients]), once pool.map returned

ConnectionProblem(cc) == \E i \in 1..Len(cc) : cc[i] = "None"

\* a map that returns as soon as one call has returned
MapReturnedMutant(states, running) == \E i \in 1..Len(states) : states[i] \notin running

\* pool.map returns when every call of the mapped function has returned

MapReturned(states, running) == \A i \in 1..Len(states) : states[i] \notin running

\* a loop that tolerates one error
StopDeploymentsMutant(results) == numberOfErrors(results) > 1

\* if deploymentResults.numberOfErrors: break

StopDeployments(results) == numberOfErrors(results) > 0

\* clients = {node.name: client for node, client in connectedClients}
ClientsMap(nodeList) ==
    [name \in {nodeList[k] : k \in 1..Len(nodeList)} |->
        CHOOSE k \in 1..Len(nodeList) :
            /\ nodeList[k] = name
            /\ \A j \in 1..Len(nodeList) : nodeList[j] = name => j <= k]

\* pairs in which every node has the session of the node after it
NodeClientTuplesShifted(nodeList) ==
    [i \in 1..Len(nodeList) |-> [node |-> nodeList[i], client |-> (i % Len(nodeList)) + 1]]

\* connectedClients = pool.map(connectClient, nodes): the (node, client) pairs in node
\* order; the session of index i is the one connectClient(nodes[i]) made
NodeClientTuples(nodeList) == [i \in 1..Len(nodeList) |-> [node |-> nodeList[i], client |-> i]]

\* closing the sessions of the name -> session map instead
ClientsToCloseMutant(cc) == {clients[name] : name \in DOMAIN clients}

\* the sessions handed to pool.map(closeClient, ...): every connected client

ClientsToClose(cc) == 1..Len(cc)

\* the result a finished nodeDeploy worker returned
WorkerResult(t, i) ==
    IF workers[t][i] = "error"
    THEN DeploymentErrorResult(deployments[t], nodes[i])
    ELSE DeploymentResult(deployments[t], nodes[i])

\* the for loop after the task at deploymentIndex: break on errors, else next task
LoopContinues(results) ==
    /\ ~StopDeployments(results)
    /\ deploymentIndex < Len(deployments)

AfterDeployment(results) ==
    /\ deploymentResults' = results
    /\ IF LoopContinues(results)
       THEN /\ pc' = "loop"
            /\ deploymentIndex' = deploymentIndex + 1
       ELSE /\ pc' = "close"
            /\ UNCHANGED deploymentIndex

\* a deploy() that goes on to connect whatever the task list holds
NothingToDeployNever(taskList) == FALSE

\* if not deployments: (line 421)
NothingToDeploy(taskList) == taskList = <<>>

\* lines 402-428: the ledger, the sorted node list, the empty task list
DeployBegin ==
    /\ pc = "called"
    /\ nodes' = SortNodes(nodes)
    /\ deploymentResults' = NewDeploymentResults
    /\ connectedClients' = [i \in 1..Len(nodes) |-> "pending"]
    /\ clientState' = [i \in 1..Len(nodes) |-> "unconnected"]
    /\ workers' = [t \in 1..Len(deployments) |-> [i \in 1..Len(nodes) |-> "idle"]]
    /\ clusterRan' = [t \in 1..Len(deployments) |-> 0]
    /\ clusterOutcome' = [t \in 1..Len(deployments) |-> NotRun]
    /\ nodeClientTuples' = [t \in 1..Len(deployments) |-> <<>>]
    /\ pc' = IF NothingToDeploy(deployments) THEN "returned" ELSE "connect"
    /\ UNCHANGED <<deployments, clients, deploymentIndex, ranOnClosed, nodeOrNodes, mainVars,
                   lastAdded, callVars, mainLog>>

\* connectClient(node) in a pool thread
ConnectClient(i) ==
    /\ pc = "connect"
    /\ connectedClients[i] = "pending"
    /\ \E connected \in BOOLEAN :
        /\ connectedClients' = [connectedClients EXCEPT ![i] = IF connected THEN "client" ELSE "None"]
        /\ clientState' = [clientState EXCEPT ![i] = IF connected THEN "open" ELSE "unconnected"]
    /\ UNCHANGED <<pc, deployments, nodes, clients, deploymentIndex, workers, clusterRan,
                   ranOnClosed, deploymentResults, mainVars, lastAdded, callVars, mainLog, deployLog>>

\* a connect phase whose error record is under a node that did not connect
ConnectFailedNamingNode ==
    /\ pc = "connect"
    /\ MapReturned(connectedClients, {"pending"})
    /\ ConnectionProblem(connectedClients)
    /\ \E i \in 1..Len(connectedClients) :
            /\ connectedClients[i] = "None"
            /\ deploymentResults' = addResult(NewDeploymentResults,
                                              DeploymentErrorResult(NodeDeploymentException, nodes[i]))
    /\ pc' = "returned"
    /\ UNCHANGED <<deployments, nodes, connectedClients, clientState, clients, deploymentIndex,
                   workers, clusterRan, ranOnClosed, mainVars, lastAdded, callVars, mainLog, deployLog>>

\* lines 452-457: a node did not connect
ConnectFailed ==
    /\ pc = "connect"
    /\ MapReturned(connectedClients, {"pending"})
    /\ ConnectionProblem(connectedClients)
    /\ deploymentResults' = addResult(NewDeploymentResults,
                                      DeploymentErrorResult(NodeDeploymentException, nodes[1]))
    /\ pc' = "returned"
    /\ UNCHANGED <<deployments, nodes, connectedClients, clientState, clients, deploymentIndex,
                   workers, clusterRan, ranOnClosed, mainVars, lastAdded, callVars, mainLog, deployLog>>

\* lines 459-464: every node connected, the for loop starts
ConnectSucceeded ==
    /\ pc = "connect"
    /\ MapReturned(connectedClients, {"pending"})
    /\ ~ConnectionProblem(connectedClients)
    /\ clients' = ClientsMap(nodes)
    /\ deploymentIndex' = 1
    /\ pc' = "loop"
    /\ UNCHANGED <<deployments, nodes, connectedClients, clientState, workers, clusterRan,
                   ranOnClosed, deploymentResults, mainVars, lastAdded, callVars, mainLog, deployLog>>

\* the nodes a DeploymentRunError raised by a cluster task can name: those it was given
RunErrorNodes(outcome, nodeList) ==
    IF outcome = "DeploymentRunError" THEN NameSet(nodeList) ELSE {None}

\* a result that is attributed to the first node whatever the run raised
ClusterResultMutant(deployment, nodeList, outcome, errorNode) ==
    IF outcome = "ok"
    THEN DeploymentResult(deployment, nodeList[1])
    ELSE DeploymentErrorResult(deployment, nodeList[1])

\* lines 473, 476, 481: the result added for the cluster task
ClusterResult(deployment, nodeList, outcome, errorNode) ==
    CASE outcome = "ok" -> DeploymentResult(deployment, nodeList[1])
      [] outcome = "DeploymentRunError" -> DeploymentErrorResult(deployment, errorNode)
      [] OTHER -> DeploymentErrorResult(deployment, nodeList[1])

\* lines 468-484: a cluster task is run on the control thread
ClusterRun ==
    /\ pc = "loop"
    /\ deployments[deploymentIndex].kind = "cluster"
    /\ clusterRan' = [clusterRan EXCEPT ![deploymentIndex] = @ + 1]
    /\ ranOnClosed' = (ranOnClosed \/ \E i \in 1..Len(nodes) : clientState[i] = "closed")
    /\ \E outcome \in {"ok", "DeploymentRunError", "Exception"} :
         \E errorNode \in RunErrorNodes(outcome, nodes) :
            /\ clusterOutcome' = [clusterOutcome EXCEPT ![deploymentIndex] =
                                    [outcome |-> outcome, node |-> errorNode,
                                     nodes |-> nodes, clients |-> clients]]
            /\ IF nodes = <<>>
               THEN \* nodes[0] raises IndexError, at line 473 or in the handler at line 481
                    /\ pc' = "raised"
                    /\ UNCHANGED <<deploymentIndex, deploymentResults>>
               ELSE AfterDeployment(addResult(deploymentResults,
                        ClusterResult(deployments[deploymentIndex], nodes, outcome, errorNode)))
    /\ UNCHANGED <<deployments, nodes, connectedClients, clientState, clients, workers,
                   nodeOrNodes, nodeClientTuples, mainVars, lastAdded, callVars, mainLog>>

\* line 508: pool.map(nodeDeploy, connectedClients) hands one call per node to the pool
NodeDeployMap ==
    /\ pc = "loop"
    /\ deployments[deploymentIndex].kind = "node"
    /\ workers' = [workers EXCEPT ![deploymentIndex] = [i \in 1..Len(nodes) |-> "queued"]]
    /\ nodeClientTuples' = [nodeClientTuples EXCEPT ![deploymentIndex] = NodeClientTuples(nodes)]
    /\ pc' = "fanout"
    /\ UNCHANGED <<deployments, nodes, connectedClients, clientState, clients, deploymentIndex,
                   clusterRan, ranOnClosed, deploymentResults, mainVars, lastAdded, callVars, mainLog,
                   nodeOrNodes, clusterOutcome>>

\* nodeDeploy in a pool thread: deployment.run(node, client, usePrivateIps) is invoked
NodeDeployRun(t, i) ==
    /\ workers[t][i] = "queued"
    /\ workers' = [workers EXCEPT ![t][i] = "running"]
    /\ ranOnClosed' = (ranOnClosed \/ clientState[nodeClientTuples[t][i].client] = "closed")
    /\ UNCHANGED <<pc, deployments, nodes, connectedClients, clientState, clients,
                   deploymentIndex, clusterRan, deploymentResults, mainVars, lastAdded, callVars, mainLog, deployLog>>

\* nodeDeploy in a pool thread: run returned or raised, the result is returned
NodeDeployReturn(t, i) ==
    /\ workers[t][i] = "running"
    /\ \E raised \in BOOLEAN :
        workers' = [workers EXCEPT ![t][i] = IF raised THEN "error" ELSE "success"]
    /\ UNCHANGED <<pc, deployments, nodes, connectedClients, clientState, clients,
                   deploymentIndex, clusterRan, ranOnClosed, deploymentResults, mainVars, lastAdded, callVars, mainLog, deployLog>>

\* lines 508-516: pool.map returned, the step is appended
NodeDeployCollect ==
    /\ pc = "fanout"
    /\ MapReturned(workers[deploymentIndex], {"queued", "running"})
    /\ AfterDeployment(addResults(deploymentResults,
                                  [i \in 1..Len(nodes) |-> WorkerResult(deploymentIndex, i)]))
    /\ UNCHANGED <<deployments, nodes, connectedClients, clientState, clients, workers,
                   clusterRan, ranOnClosed, mainVars, lastAdded, callVars, mainLog, deployLog>>

\* closeClient(client) in a pool thread
CloseClient(i) ==
    /\ pc = "close"
    /\ i \in ClientsToClose(connectedClients)
    /\ clientState[i] = "open"
    /\ clientState' = [clientState EXCEPT ![i] = "closed"]
    /\ UNCHANGED <<pc, deployments, nodes, connectedClients, clients, deploymentIndex, workers,
                   clusterRan, ranOnClosed, deploymentResults, mainVars, lastAdded, callVars, mainLog, deployLog>>

\* lines 526-536: pool.map(closeClient, ...) returned, deploy() returns the ledger
DeployReturn ==
    /\ pc = "close"
    /\ \A i \in ClientsToClose(connectedClients) : clientState[i] # "open"
    /\ pc' = "returned"
    /\ UNCHANGED <<deployments, nodes, connectedClients, clientState, clients, deploymentIndex,
                   workers, clusterRan, ranOnClosed, deploymentResults, mainVars, lastAdded, callVars, mainLog, deployLog>>

SeqsUpTo(S, n) == UNION {[1..k -> S] : k \in 0..n}

TaskLists(n) ==
    {[t \in 1..Len(kinds) |-> [id |-> t, kind |-> kinds[t]]] : kinds \in SeqsUpTo({"node", "cluster"}, n)}

InitMainIdle ==
    /\ mainPc = "none"
    /\ nodesInformation = <<>>
    /\ nodeInfos = <<>>
    /\ deploymentInfos = <<>>
    /\ deploymentSections = <<>>
    /\ sectionIndex = 0
    /\ exitCode = -1
    /\ deployCalls = <<>>
    /\ sectionErrors = <<>>

InitDeploy(taskList, nodeList) ==
    /\ pc = "called"
    /\ deployments = taskList
    /\ nodes = nodeList
    /\ nodeOrNodes = nodeList
    /\ connectedClients = <<>>
    /\ clientState = <<>>
    /\ clients = <<>>
    /\ deploymentIndex = 0
    /\ workers = <<>>
    /\ clusterRan = <<>>
    /\ clusterOutcome = <<>>
    /\ nodeClientTuples = <<>>
    /\ ranOnClosed = FALSE
    /\ deploymentResults = NewDeploymentResults

\* deploy(taskList, nodeList) called with any task list and any node list
Init ==
    /\ \E taskList \in TaskLists(MaxTasks) : \E nodeList \in SeqsUpTo(NodeNames, MaxNodes) :
            InitDeploy(taskList, nodeList)
    /\ InitMainIdle
    /\ lastAdded = [results |-> <<>>, errorsBefore |-> 0]
    /\ addedNodes = <<>>
    /\ resolved = [names |-> <<>>, nodes |-> <<>>, called |-> FALSE]
    /\ hjsonPlan = <<>>
    /\ loadResults = NoLoads
    /\ tokenLoop = NoItems
    /\ InitUtilIdle

Next ==
    \/ DeployBegin
    \/ \E i \in 1..Len(connectedClients) : ConnectClient(i)
    \/ ConnectFailed
    \/ ConnectSucceeded
    \/ ClusterRun
    \/ NodeDeployMap
    \/ \E t \in 1..Len(workers) : \E i \in 1..Len(workers[t]) : NodeDeployRun(t, i)
    \/ \E t \in 1..Len(workers) : \E i \in 1..Len(workers[t]) : NodeDeployReturn(t, i)
    \/ NodeDeployCollect
    \/ \E i \in 1..Len(connectedClients) : CloseClient(i)
    \/ DeployReturn

Spec == Init /\ [][Next]_vars

----------------------------------------------------------------------------
(* NodesInfoMap (base.py) and getDeploymentSections (manager.py) *)


\* BaseNodeInfo(name, publicIp, privateIp=None, password=None), base.py lines 54-60
BaseNodeInfo(name, publicIp, privateIp, password) ==
    [name |-> name,
     public_ips |-> <<publicIp>>,
     private_ips |-> IF privateIp \notin {None, ""} THEN <<privateIp>> ELSE <<>>,
     extra |-> IF password \notin {None, ""} THEN [password |-> password] ELSE <<>>]

\* node.extra.get("password")
ExtraPassword(node) == IF "password" \in DOMAIN node.extra THEN node.extra.password ELSE None

\* lines 347-351: the record NodesInfoMap.add stores for a node
StoredNodeInfo(node) ==
    BaseNodeInfo(node.name,
                 IF node.public_ips # <<>> THEN node.public_ips[1] ELSE "",
                 IF node.private_ips # <<>> THEN node.private_ips[1] ELSE None,
                 ExtraPassword(node))

\* NodesInfoMap(): self.nodes = {}; names is the order of the keys, nodes the dict
NodesInfoMap(names, nodeDict) == [names |-> names, nodes |-> nodeDict]

\* an add that stores the node again under a name that is registered
addMutant(self, node) ==
    NodesInfoMap(IF node.name \in DOMAIN self.nodes THEN self.names ELSE Append(self.names, node.name),
                 [name \in DOMAIN self.nodes \cup {node.name} |->
                     IF name = node.name THEN StoredNodeInfo(node) ELSE self.nodes[name]])

\* NodesInfoMap.add, lines 337-351
add(self, node) ==
    IF node.name \in DOMAIN self.nodes
    THEN self
    ELSE NodesInfoMap(Append(self.names, node.name),
                      [name \in DOMAIN self.nodes \cup {node.name} |->
                          IF name = node.name THEN StoredNodeInfo(node) ELSE self.nodes[name]])

\* the registry a nodes file with these names loads to: one address each, no password
RegistryOf(names) == [name \in NameSet(names) |-> BaseNodeInfo(name, "1.2.3.4", None, None)]

\* name.split(".")[0]
RECURSIVE ShortName(_)
ShortName(name) ==
    IF name = <<>> \/ Head(name) = "." THEN <<>>
    ELSE <<Head(name)>> \o ShortName(Tail(name))

\* lines 362-371: the first node in sorted(self.items()) that has a short name keeps it
shortNameNodesInfoMap(registry) ==
    LET sortedNames == SortNames(registry)
    IN  [shortName \in {ShortName(sortedNames[k]) : k \in 1..Len(sortedNames)} |->
            sortedNames[CHOOSE k \in 1..Len(sortedNames) :
                            /\ ShortName(sortedNames[k]) = shortName
                            /\ \A j \in 1..Len(sortedNames) :
                                    ShortName(sortedNames[j]) = shortName => k <= j]]

\* a lookup in the short name mapping only
RECURSIVE getNodesByNamesShortOnly(_, _)
getNodesByNamesShortOnly(registry, names) ==
    IF names = <<>> THEN <<>>
    ELSE LET nodeName == Head(names)
             rest == getNodesByNamesShortOnly(registry, Tail(names))
         IN  IF nodeName \in DOMAIN shortNameNodesInfoMap(registry)
             THEN <<shortNameNodesInfoMap(registry)[nodeName]>> \o rest
             ELSE rest

\* a lookup that gives up at the first name that is not valid
RECURSIVE getNodesByNamesUntilInvalid(_, _)
getNodesByNamesUntilInvalid(registry, names) ==
    IF names = <<>> THEN <<>>
    ELSE LET nodeName == Head(names)
             rest == getNodesByNamesUntilInvalid(registry, Tail(names))
         IN  IF nodeName \in NameSet(registry) THEN <<nodeName>> \o rest
             ELSE IF nodeName \in DOMAIN shortNameNodesInfoMap(registry)
                  THEN <<shortNameNodesInfoMap(registry)[nodeName]>> \o rest
                  ELSE <<>>

\* NodesInfoMap.getNodesByNames, lines 373-383
RECURSIVE getNodesByNames(_, _)
getNodesByNames(registry, names) ==
    IF names = <<>> THEN <<>>
    ELSE LET nodeName == Head(names)
             rest == getNodesByNames(registry, Tail(names))
         IN  IF nodeName \in NameSet(registry) THEN <<nodeName>> \o rest
             ELSE IF nodeName \in DOMAIN shortNameNodesInfoMap(registry)
                  THEN <<shortNameNodesInfoMap(registry)[nodeName]>> \o rest
                  ELSE rest

\* DeploymentInfo(deployment, *nodes): self.nodes = nodes if nodes else None;
\* the empty sequence stands for None
DeploymentInfo(deployment, nodeNames) == [deployment |-> deployment, nodes |-> nodeNames]

\* every plan entry resolved through getNodesByNames, a missing target list as no name
DeploymentNodesByNamesOnly(deploymentInfo, registry) ==
    getNodesByNames(registry, deploymentInfo.nodes)

\* manager.py lines 159-162: the nodes a plan entry is run on
DeploymentNodes(deploymentInfo, registry) ==
    IF deploymentInfo.nodes # <<>>
    THEN getNodesByNames(registry, deploymentInfo.nodes)
    ELSE registry

\* a comparison of the node lists as they are, order included
SameNodesMutant(currentNodes, deploymentNodes) == currentNodes = deploymentNodes

\* manager.py lines 163-165: currentNodeNames == nodeNames, two sets of names
SameNodes(currentNodes, deploymentNodes) == NameSet(currentNodes) = NameSet(deploymentNodes)

Section(deploymentList, nodeList) == [deployments |-> deploymentList, nodes |-> nodeList]

\* the loop with currentNodes following every entry, also the ones merged
RECURSIVE SectionsLoopLastNodes(_, _, _, _, _)
SectionsLoopLastNodes(infos, registry, sections, currentNodes, currentSection) ==
    IF infos = <<>>
    THEN IF currentSection # <<>>
         THEN Append(sections, Section(currentSection, currentNodes))
         ELSE sections
    ELSE LET deploymentInfo == Head(infos)
             deploymentNodes == DeploymentNodes(deploymentInfo, registry)
         IN  IF SameNodes(currentNodes, deploymentNodes)
             THEN SectionsLoopLastNodes(Tail(infos), registry, sections, deploymentNodes,
                                        Append(currentSection, deploymentInfo.deployment))
             ELSE SectionsLoopLastNodes(Tail(infos), registry,
                                        IF currentSection # <<>>
                                        THEN Append(sections, Section(currentSection, currentNodes))
                                        ELSE sections,
                                        deploymentNodes, <<deploymentInfo.deployment>>)

\* manager.py lines 158-171: the loop over the plan entries
RECURSIVE SectionsLoop(_, _, _, _, _)
SectionsLoop(infos, registry, sections, currentNodes, currentSection) ==
    IF infos = <<>>
    THEN \* lines 173-176
         IF currentSection # <<>>
         THEN Append(sections, Section(currentSection, currentNodes))
         ELSE sections
    ELSE LET deploymentInfo == Head(infos)
             deploymentNodes == DeploymentNodes(deploymentInfo, registry)
         IN  IF SameNodes(currentNodes, deploymentNodes)
             THEN SectionsLoop(Tail(infos), registry, sections, currentNodes,
                               Append(currentSection, deploymentInfo.deployment))
             ELSE SectionsLoop(Tail(infos), registry,
                               IF currentSection # <<>>
                               THEN Append(sections, Section(currentSection, currentNodes))
                               ELSE sections,
                               deploymentNodes, <<deploymentInfo.deployment>>)

\* manager.getDeploymentSections
getDeploymentSections(infos, registry) == SectionsLoop(infos, registry, <<>>, <<>>, <<>>)

----------------------------------------------------------------------------
(* The deployment DSL: DeploymentInfos.fromHjson (configuration.py) *)

(* A text is a sequence of tokens. A token is a maximal run of non-whitespace   *)
(* characters, or NL, the end of a line; tokens of one line are separated by    *)
(* blanks. A token is the sequence of its pieces: each of { } [ ] : # is a      *)
(* piece of its own, a task name is module, ".", class, and any other run of    *)
(* characters is one piece.                                                      *)
NL == <<"\n">>

\* character in token
Has(token, character) == \E k \in 1..Len(token) : token[k] = character

\* the matches of \S+
Words(text) == SelectSeq(text, LAMBDA token : token # NL)

\* index of the first token "deployments:", 0 when there is none
DeploymentsAt(text) ==
    IF \E k \in 1..Len(text) : text[k] = <<"deployments", ":">>
    THEN CHOOSE k \in 1..Len(text) :
            /\ text[k] = <<"deployments", ":">>
            /\ \A j \in 1..(k - 1) : text[j] # <<"deployments", ":">>
    ELSE 0

\* re.search(r"deployments\s*:\s*\[\s*\{", hjsonString): "[" and "{" are what follows
regularSyntax(hjsonString) ==
    LET after == Words(SubSeq(hjsonString, DeploymentsAt(hjsonString) + 1, Len(hjsonString)))
    IN  /\ DeploymentsAt(hjsonString) # 0
        /\ after # <<>>
        /\ \/ Len(after[1]) >= 2 /\ after[1][1] = "[" /\ after[1][2] = "{"
           \/ after[1] = <<"[">> /\ Len(after) >= 2 /\ after[2][1] = "{"

\* match.group("deployments").strip().lstrip("[").rstrip("]"), then
\* re.sub("#.*$", "", ..., flags=re.MULTILINE)
rawDeploymentsString(hjsonString) ==
    LET RECURSIVE strip(_)
        strip(text) ==
            IF text = <<>> THEN <<>>
            ELSE IF Head(text) = NL THEN strip(Tail(text))
            ELSE IF text[Len(text)] = NL THEN strip(SubSeq(text, 1, Len(text) - 1))
            ELSE text
        RECURSIVE lstrip(_)
        lstrip(text) ==
            IF text = <<>> THEN <<>>
            ELSE IF Head(text) = <<>> THEN Tail(text)
            ELSE IF Head(Head(text)) = "[" THEN lstrip(<<Tail(Head(text))>> \o Tail(text))
            ELSE text
        RECURSIVE rstrip(_)
        rstrip(text) ==
            IF text = <<>> THEN <<>>
            ELSE LET last == text[Len(text)]
                     front == SubSeq(text, 1, Len(text) - 1)
                 IN  IF last = <<>> THEN front
                     ELSE IF last[Len(last)] = "]"
                          THEN rstrip(Append(front, SubSeq(last, 1, Len(last) - 1)))
                          ELSE text
        BeforeComment(token) ==
            SubSeq(token, 1, (CHOOSE k \in 1..Len(token) :
                                /\ token[k] = "#"
                                /\ \A j \in 1..(k - 1) : token[j] # "#") - 1)
        RECURSIVE removeComments(_, _)
        removeComments(text, inComment) ==
            IF text = <<>> THEN <<>>
            ELSE LET token == Head(text)
                 IN  IF token = NL THEN <<NL>> \o removeComments(Tail(text), FALSE)
                     ELSE IF inComment THEN removeComments(Tail(text), TRUE)
                     ELSE IF Has(token, "#")
                          THEN (IF BeforeComment(token) = <<>> THEN <<>> ELSE <<BeforeComment(token)>>)
                               \o removeComments(Tail(text), TRUE)
                          ELSE <<token>> \o removeComments(Tail(text), FALSE)
        group == SubSeq(hjsonString, DeploymentsAt(hjsonString) + 1, Len(hjsonString))
    IN  removeComments(rstrip(lstrip(strip(group))), FALSE)

\* "{0}: {1}".format(item, "{}")
emptyItem(item) == <<item \o <<":">>, <<"{", "}">>>>

\* while "{" not in currentItem[1]: deploymentItems.append(... currentItem.pop(0) ...);
\* raised is the IndexError of currentItem[1]
RECURSIVE popBare(_, _)
popBare(currentItem, deploymentItems) ==
    IF Len(currentItem) < 2
    THEN [raised |-> TRUE, currentItem |-> currentItem, deploymentItems |-> deploymentItems]
    ELSE IF Has(currentItem[2], "{")
    THEN [raised |-> FALSE, currentItem |-> currentItem, deploymentItems |-> deploymentItems]
    ELSE popBare(Tail(currentItem), Append(deploymentItems, emptyItem(Head(currentItem))))

\* the token loop and the flush of what is left: the deployment items, each a text
RECURSIVE findItems(_, _, _, _)
findItems(tokens, currentItem, currentLevel, deploymentItems) ==
    LET RECURSIVE joinLines(_)
        joinLines(lines) ==
            IF Len(lines) <= 1 THEN lines ELSE <<Head(lines), NL>> \o joinLines(Tail(lines))
    IN  IF tokens = <<>>
        THEN [raised |-> FALSE,
              deploymentItems |->
                  deploymentItems \o [k \in 1..Len(currentItem) |-> emptyItem(currentItem[k])]]
        ELSE LET token == Head(tokens)
                 item == Append(currentItem, token)
             IN  IF Has(token, "{")
                 THEN findItems(Tail(tokens), item, currentLevel + 1, deploymentItems)
                 ELSE IF Has(token, "}")
                 THEN IF currentLevel - 1 = 0
                      THEN LET popped == popBare(item, deploymentItems)
                           IN  IF popped.raised
                               THEN [raised |-> TRUE, deploymentItems |-> <<>>]
                               ELSE findItems(Tail(tokens), <<>>, 0,
                                              Append(popped.deploymentItems,
                                                     joinLines(popped.currentItem)))
                      ELSE findItems(Tail(tokens), item, currentLevel - 1, deploymentItems)
                 ELSE findItems(Tail(tokens), item, currentLevel, deploymentItems)

\* "deployments: [{0}]".format("\n".join("{ " + deploymentPart + " }" for ...))
reassemble(deploymentItems) ==
    LET RECURSIVE joinParts(_)
        joinParts(parts) ==
            IF parts = <<>> THEN <<>>
            ELSE <<<<"{">>>> \o Head(parts) \o <<<<"}">>>>
                 \o (IF Len(parts) = 1 THEN <<>> ELSE <<NL>> \o joinParts(Tail(parts)))
        body == joinParts(deploymentItems)
    IN  IF body = <<>> THEN <<<<"deployments", ":">>, <<"[", "]">>>>
        ELSE <<<<"deployments", ":">>>>
             \o [k \in 1..Len(body) |->
                    (IF k = 1 THEN <<"[">> ELSE <<>>) \o body[k]
                    \o (IF k = Len(body) THEN <<"]">> ELSE <<>>)]

\* re.sub(r"deployments\s*:\s*\[.*\]", deploymentString, hjsonString, flags=re.DOTALL):
\* from "deployments:" to the last "]" of the text
substitute(deploymentString, hjsonString) ==
    LET from == DeploymentsAt(hjsonString)
        to == IF \E k \in 1..Len(hjsonString) : Has(hjsonString[k], "]")
              THEN CHOOSE k \in 1..Len(hjsonString) :
                        /\ Has(hjsonString[k], "]")
                        /\ \A j \in (k + 1)..Len(hjsonString) : ~Has(hjsonString[j], "]")
              ELSE 0
        after == Words(SubSeq(hjsonString, from + 1, Len(hjsonString)))
        AfterBracket(token) ==
            SubSeq(token, (CHOOSE k \in 1..Len(token) :
                                /\ token[k] = "]"
                                /\ \A j \in (k + 1)..Len(token) : token[j] # "]") + 1, Len(token))
    IN  IF from = 0 \/ to <= from \/ after = <<>> \/ Head(Head(after)) # "["
        THEN hjsonString
        ELSE SubSeq(hjsonString, 1, from - 1) \o deploymentString
             \o (IF AfterBracket(hjsonString[to]) = <<>> THEN <<>>
                 ELSE <<AfterBracket(hjsonString[to])>>)
             \o SubSeq(hjsonString, to + 1, Len(hjsonString))

\* lines 86-123: the text handed to the Hjson parser; raised when the rewrite itself raises
normalise(hjsonString) ==
    IF regularSyntax(hjsonString) THEN [raised |-> FALSE, text |-> hjsonString]
    ELSE IF DeploymentsAt(hjsonString) = 0 THEN [raised |-> TRUE, text |-> <<>>]
    ELSE LET found == findItems(Words(rawDeploymentsString(hjsonString)), <<>>, 0, <<>>)
         IN  IF found.raised THEN [raised |-> TRUE, text |-> <<>>]
             ELSE [raised |-> FALSE, text |-> substitute(reassemble(found.deploymentItems), hjsonString)]

(* hjson.loads (external library), for the part of Hjson the DSL uses: an       *)
(* object with or without root braces, members "key: value" separated by line   *)
(* ends, lists, and quoteless strings, which run to the end of their line.      *)
(* Values are [type, value]: "str" with the characters, "list" with the items,  *)
(* "dict" with the members [key, value] in source order, "None".                *)
Value(type, value) == [type |-> type, value |-> value]

\* the characters of a text: a blank between the tokens of a line
RECURSIVE Characters(_)
Characters(text) ==
    IF text = <<>> THEN <<>>
    ELSE IF Len(text) = 1 THEN Head(text)
    ELSE Head(text) \o (IF Head(text) = NL \/ text[2] = NL THEN <<>> ELSE <<" ">>)
         \o Characters(Tail(text))

\* what is left after the whitespace at the start
RECURSIVE white(_)
white(s) == IF s # <<>> /\ Head(s) \in {" ", "\n"} THEN white(Tail(s)) ELSE s

HjsonError == [ok |-> FALSE, value |-> Value("error", <<>>), rest |-> <<>>]

\* a member name: the characters up to ":", no whitespace inside, no punctuator
RECURSIVE keyName(_, _, _)
keyName(s, name, spaced) ==
    IF s = <<>> THEN [ok |-> FALSE, name |-> <<>>, rest |-> <<>>]
    ELSE IF Head(s) = ":" THEN [ok |-> name # <<>>, name |-> name, rest |-> Tail(s)]
    ELSE IF Head(s) \in {" ", "\n"} THEN keyName(Tail(s), name, TRUE)
    ELSE IF Head(s) \in {"{", "}", "[", "]", ","} \/ spaced
         THEN [ok |-> FALSE, name |-> <<>>, rest |-> <<>>]
    ELSE keyName(Tail(s), Append(name, Head(s)), FALSE)

RECURSIVE parseValue(_)
RECURSIVE parseMembers(_, _, _)
RECURSIVE parseItems(_, _)

\* a value: an object, a list, or a quoteless string up to the end of its line
parseValue(s0) ==
    LET s == white(s0)
        RECURSIVE toLineEnd(_)
        toLineEnd(t) == IF t = <<>> \/ Head(t) = "\n" THEN <<>> ELSE <<Head(t)>> \o toLineEnd(Tail(t))
        RECURSIVE trimRight(_)
        trimRight(t) == IF t # <<>> /\ t[Len(t)] = " " THEN trimRight(SubSeq(t, 1, Len(t) - 1)) ELSE t
    IN  IF s = <<>> THEN HjsonError
        ELSE IF Head(s) = "{" THEN parseMembers(Tail(s), <<>>, FALSE)
        ELSE IF Head(s) = "[" THEN parseItems(Tail(s), <<>>)
        ELSE IF Head(s) \in {"}", "]", ",", ":"} THEN HjsonError
        ELSE [ok |-> TRUE, value |-> Value("str", trimRight(toLineEnd(s))),
              rest |-> SubSeq(s, Len(toLineEnd(s)) + 1, Len(s))]

\* the members of an object up to its "}", of the root object up to the end of the text
parseMembers(s0, members, root) ==
    LET s == white(s0)
    IN  IF s = <<>>
        THEN IF root THEN [ok |-> TRUE, value |-> Value("dict", members), rest |-> <<>>]
             ELSE HjsonError
        ELSE IF Head(s) = "}"
        THEN IF root THEN HjsonError
             ELSE [ok |-> TRUE, value |-> Value("dict", members), rest |-> Tail(s)]
        ELSE LET key == keyName(s, <<>>, FALSE)
                 member == parseValue(key.rest)
             IN  IF ~key.ok THEN HjsonError
                 ELSE IF ~member.ok THEN HjsonError
                 ELSE parseMembers(member.rest,
                                   Append(members, [key |-> key.name, value |-> member.value]),
                                   root)

\* the items of a list up to its "]"
parseItems(s0, items) ==
    LET s == white(s0)
        item == parseValue(s)
    IN  IF s = <<>> THEN HjsonError
        ELSE IF Head(s) = "]" THEN [ok |-> TRUE, value |-> Value("list", items), rest |-> Tail(s)]
        ELSE IF ~item.ok THEN HjsonError
        ELSE parseItems(item.rest, Append(items, item.value))

\* hjson.loads(text), before the object hook: the root object
HjsonLoads(text) ==
    LET s == white(Characters(text))
        parsed == parseMembers(Tail(s), <<>>, FALSE)
    IN  IF s # <<>> /\ Head(s) = "{"
        THEN IF parsed.ok /\ white(parsed.rest) = <<>> THEN parsed ELSE HjsonError
        ELSE parseMembers(s, <<>>, TRUE)

(* The plan loader: DeploymentInfos.fromHjsonSerializable and                   *)
(* DeploymentInfo.fromHjsonSerializable (configuration.py),                     *)
(* initWithVariableArguments and getVariableArguments (util.py)                 *)

\* the task classes of storm.deployments the model loads, each with
\* inspect.getargspec of its __init__, self left out; <<>> is no varargs, no keywords:
\* AddKnownHost(host, hostPublicKey, user="root"), GenerateSSHKeys(user="root"),
\* UpdateKernel(), InstallRPMPackages(*rpms), SetKernelParameters(**parameters)
Classes ==
    (<<"ssh", ".", "AddKnownHost">> :>
        [args |-> <<<<"host">>, <<"hostPublicKey">>, <<"user">>>>,
         defaults |-> <<Value("str", <<"root">>)>>, varargs |-> <<>>, keywords |-> <<>>])
    @@ (<<"ssh", ".", "GenerateSSHKeys">> :>
        [args |-> <<<<"user">>>>,
         defaults |-> <<Value("str", <<"root">>)>>, varargs |-> <<>>, keywords |-> <<>>])
    @@ (<<"software", ".", "UpdateKernel">> :>
        [args |-> <<>>, defaults |-> <<>>, varargs |-> <<>>, keywords |-> <<>>])
    @@ (<<"software", ".", "InstallRPMPackages">> :>
        [args |-> <<>>, defaults |-> <<>>, varargs |-> <<"rpms">>, keywords |-> <<>>])
    @@ (<<"node", ".", "SetKernelParameters">> :>
        [args |-> <<>>, defaults |-> <<>>, varargs |-> <<>>, keywords |-> <<"parameters">>])

\* name in dictionary, for a dictionary given as its members
HasKey(members, name) == \E k \in 1..Len(members) : members[k].key = name

\* dictionary[name]
ValueOf(members, name) ==
    members[CHOOSE k \in 1..Len(members) :
                /\ members[k].key = name
                /\ \A j \in (k + 1)..Len(members) : members[j].key # name].value

\* getVariableArguments that keeps every given key in the argument map
getVariableArgumentsKeepingAll(handlerArgSpec, keyValueArguments) ==
    LET handlerArguments == handlerArgSpec.args
        handlerDefaults == handlerArgSpec.defaults
        lastRequiredArgumentIndex == Len(handlerArguments) - Len(handlerDefaults)
        At(name) == CHOOSE k \in 1..Len(handlerArguments) : handlerArguments[k] = name
    IN  [handlerArgumentMap |->
            [name \in NameSet(handlerArguments)
                        \cup {keyValueArguments[k].key : k \in 1..Len(keyValueArguments)} |->
                IF HasKey(keyValueArguments, name) THEN ValueOf(keyValueArguments, name)
                ELSE IF At(name) <= lastRequiredArgumentIndex THEN Value("str", <<"_notset_">>)
                ELSE handlerDefaults[At(name) - lastRequiredArgumentIndex]],
         leftOverKeywords |->
            SelectSeq(keyValueArguments, LAMBDA member : member.key \notin NameSet(handlerArguments))]

\* getVariableArguments(handler, **keyValueArguments): the argument map and the left over keywords
getVariableArguments(handlerArgSpec, keyValueArguments) ==
    LET handlerArguments == handlerArgSpec.args
        handlerDefaults == handlerArgSpec.defaults
        lastRequiredArgumentIndex == Len(handlerArguments) - Len(handlerDefaults)
        At(name) == CHOOSE k \in 1..Len(handlerArguments) : handlerArguments[k] = name
    IN  [handlerArgumentMap |->
            [name \in NameSet(handlerArguments) |->
                IF HasKey(keyValueArguments, name) THEN ValueOf(keyValueArguments, name)
                ELSE IF At(name) <= lastRequiredArgumentIndex THEN Value("str", <<"_notset_">>)
                ELSE handlerDefaults[At(name) - lastRequiredArgumentIndex]],
         leftOverKeywords |->
            SelectSeq(keyValueArguments, LAMBDA member : member.key \notin NameSet(handlerArguments))]

\* initWithVariableArguments(cls, **keyValueArguments): raised, or the instance as the
\* call cls(*arguments, **keywords) that made it
initWithVariableArguments(cls, keyValueArguments) ==
    LET handlerArgSpec == Classes[cls]
        got == getVariableArguments(handlerArgSpec, keyValueArguments)
        leftOverKeywords == got.leftOverKeywords
        missingArguments ==
            {name \in DOMAIN got.handlerArgumentMap :
                /\ got.handlerArgumentMap[name].type = "str"
                /\ got.handlerArgumentMap[name].value = <<"_notset_">>}
        handlerArgumentMap ==
            IF handlerArgSpec.keywords # <<>>
            THEN [name \in (DOMAIN got.handlerArgumentMap)
                            \cup {leftOverKeywords[k].key : k \in 1..Len(leftOverKeywords)} |->
                    IF HasKey(leftOverKeywords, name) THEN ValueOf(leftOverKeywords, name)
                    ELSE got.handlerArgumentMap[name]]
            ELSE got.handlerArgumentMap
        varargsValue == ValueOf(leftOverKeywords, handlerArgSpec.varargs)
        \* list(varargsValue)
        varargsList ==
            IF varargsValue.type = "list" THEN varargsValue.value
            ELSE [k \in 1..Len(varargsValue.value) |-> Value("str", <<varargsValue.value[k]>>)]
    IN  IF missingArguments # {} THEN [raised |-> TRUE, instance |-> <<>>]
        ELSE IF handlerArgSpec.varargs # <<>>
        THEN IF ~HasKey(leftOverKeywords, handlerArgSpec.varargs)
             THEN [raised |-> TRUE, instance |-> <<>>]
             ELSE [raised |-> FALSE,
                   instance |->
                     [cls |-> cls,
                      arguments |->
                        [k \in 1..Len(handlerArgSpec.args) |-> handlerArgumentMap[handlerArgSpec.args[k]]]
                        \o varargsList,
                      keywords |->
                        [name \in (DOMAIN handlerArgumentMap) \ NameSet(handlerArgSpec.args) |->
                            handlerArgumentMap[name]]]]
        ELSE [raised |-> FALSE,
              instance |-> [cls |-> cls, arguments |-> <<>>, keywords |-> handlerArgumentMap]]

\* DeploymentInfo.fromHjsonSerializable(hjsonDict) for a dictionary: raised, or the DeploymentInfo
DeploymentInfo_fromHjsonSerializable(hjsonDict) ==
    LET item == hjsonDict.value[Len(hjsonDict.value)]
        deploymentClassName == item.key
        parameters == item.value
        deploymentNodes ==
            IF HasKey(parameters.value, <<"deploymentNodes">>)
            THEN ValueOf(parameters.value, <<"deploymentNodes">>)
            ELSE Value("None", <<>>)
        \* if nodes:
        given == deploymentNodes.type # "None" /\ deploymentNodes.value # <<>>
        \* getTypedParameter(parameters, "deploymentNodes", [str]) returns
        listOfStr ==
            /\ deploymentNodes.type = "list"
            /\ \A k \in 1..Len(deploymentNodes.value) : deploymentNodes.value[k].type = "str"
        deployment ==
            initWithVariableArguments(
                deploymentClassName,
                IF given
                THEN SelectSeq(parameters.value, LAMBDA member : member.key # <<"deploymentNodes">>)
                ELSE parameters.value)
    IN  IF parameters.type # "dict" THEN [raised |-> TRUE, info |-> <<>>]
        ELSE IF given /\ ~listOfStr THEN [raised |-> TRUE, info |-> <<>>]
        ELSE IF deploymentClassName \notin DOMAIN Classes THEN [raised |-> TRUE, info |-> <<>>]
        ELSE IF deployment.raised THEN [raised |-> TRUE, info |-> <<>>]
        ELSE [raised |-> FALSE,
              info |-> DeploymentInfo(
                          deployment.instance,
                          IF given
                          THEN [k \in 1..Len(deploymentNodes.value) |-> deploymentNodes.value[k].value]
                          ELSE <<>>)]

\* the loop over the deployment items as if one try held the whole loop
RECURSIVE loadItemsUntilError(_, _)
loadItemsUntilError(deploymentItems, loadedInfos) ==
    IF deploymentItems = <<>> THEN loadedInfos
    ELSE LET deploymentInfo == DeploymentInfo_fromHjsonSerializable(Head(deploymentItems))
         IN  IF deploymentInfo.raised THEN loadedInfos
             ELSE loadItemsUntilError(Tail(deploymentItems), Append(loadedInfos, deploymentInfo.info))

\* the loop of lines 142-150, each item in its own try
RECURSIVE loadItems(_, _)
loadItems(deploymentItems, loadedInfos) ==
    IF deploymentItems = <<>> THEN loadedInfos
    ELSE LET deploymentInfo == DeploymentInfo_fromHjsonSerializable(Head(deploymentItems))
         IN  loadItems(Tail(deploymentItems),
                       IF deploymentInfo.raised THEN loadedInfos
                       ELSE Append(loadedInfos, deploymentInfo.info))

\* what a load returned: it raised, or the DeploymentInfos with these deployments
LoadResult(raised, loadedInfos) == [done |-> TRUE, raised |-> raised, deployments |-> loadedInfos]

\* DeploymentInfos.fromHjsonSerializable(hjsonDict): a dictionary without "deployments" is
\* returned as it is, which is no plan
DeploymentInfos_fromHjsonSerializable(hjsonDict) ==
    IF ~HasKey(hjsonDict.value, <<"deployments">>) THEN LoadResult(FALSE, <<>>)
    ELSE LET deploymentItems == ValueOf(hjsonDict.value, <<"deployments">>)
         IN  IF \/ deploymentItems.type # "list"
                \/ \E k \in 1..Len(deploymentItems.value) :
                        \/ deploymentItems.value[k].type # "dict"
                        \/ deploymentItems.value[k].value = <<>>
             THEN LoadResult(TRUE, <<>>)
             ELSE LoadResult(FALSE, loadItems(deploymentItems.value, <<>>))

\* DeploymentInfos.fromHjson(hjsonString)
DeploymentInfos_fromHjson(hjsonString) ==
    LET normal == normalise(hjsonString)
        parsed == HjsonLoads(normal.text)
    IN  IF normal.raised THEN LoadResult(TRUE, <<>>)
        ELSE IF ~parsed.ok THEN LoadResult(TRUE, <<>>)
        ELSE DeploymentInfos_fromHjsonSerializable(parsed.value)

----------------------------------------------------------------------------
(* The ssh tasks: AddAuthorizedKey.run, AddKnownHost.run (deployments/ssh.py) *)

(* A file content is the sequence of its characters; "HOSTNAME=" is one piece.  *)
(* remoteFiles has the content of /etc/sysconfig/network (read gives "" for a   *)
(* file that is not there) and, for authorized_keys and known_hosts of the      *)
(* user, whether the file is there and its content.                             *)

\* str.splitlines()
RECURSIVE splitlines(_)
splitlines(string) ==
    IF string = <<>> THEN <<>>
    ELSE IF \E k \in 1..Len(string) : string[k] = "\n"
    THEN LET end == CHOOSE k \in 1..Len(string) :
                        string[k] = "\n" /\ \A j \in 1..(k - 1) : string[j] # "\n"
         IN  <<SubSeq(string, 1, end - 1)>> \o splitlines(SubSeq(string, end + 1, Len(string)))
    ELSE <<string>>

\* client.read("/etc/sysconfig/network"), re.findall("HOSTNAME=(.+)", network)[0];
\* client.mkdir(sshDirectory); if not client.isFile(path): client.touch(path);
\* raised is the IndexError of [0]
Prepare(files, path) ==
    IF \E k \in 1..(Len(files.network) - 1) :
            files.network[k] = "HOSTNAME=" /\ files.network[k + 1] # "\n"
    THEN [raised |-> FALSE,
          files |-> IF files[path].isFile THEN files
                    ELSE [files EXCEPT ![path] = [isFile |-> TRUE, content |-> <<>>]]]
    ELSE [raised |-> TRUE, files |-> files]

\* client.put(path, contents=contents, mode="a") of libcloud's ParamikoSSHClient, which
\* writes the contents at the end of the file as they are
put(files, path, contents) == [files EXCEPT ![path].content = @ \o contents]

\* AddAuthorizedKey.run(node, client, usePrivateIps) for user root
AddAuthorizedKey_run(self, files) ==
    LET RECURSIVE strip(_)
        strip(string) ==
            IF string = <<>> THEN <<>>
            ELSE IF Head(string) \in {" ", "\n"} THEN strip(Tail(string))
            ELSE IF string[Len(string)] \in {" ", "\n"} THEN strip(SubSeq(string, 1, Len(string) - 1))
            ELSE string
        prepared == Prepare(files, "authorized_keys")
        authorizedKeys == splitlines(prepared.files.authorized_keys.content)
        alreadyAuthorized ==
            \E k \in 1..Len(authorizedKeys) : strip(authorizedKeys[k]) = strip(self.publicKey)
    IN  IF prepared.raised \/ alreadyAuthorized THEN prepared
        ELSE [raised |-> FALSE, files |-> put(prepared.files, "authorized_keys", self.publicKey)]

\* AddKnownHost.run(node, client, usePrivateIps) for user root
AddKnownHost_run(self, files) ==
    LET startswith(string, prefix) ==
            Len(string) >= Len(prefix) /\ SubSeq(string, 1, Len(prefix)) = prefix
        prepared == Prepare(files, "known_hosts")
        knownHosts == splitlines(prepared.files.known_hosts.content)
        alreadyKnown == \E k \in 1..Len(knownHosts) : startswith(knownHosts[k], self.host)
        knownHostEntry == self.host \o <<" ">> \o self.hostPublicKey
        index == CHOOSE k \in 1..Len(self.host) :
                    self.host[k] = "." /\ \A j \in 1..(k - 1) : self.host[j] # "."
        knownShortHostEntry == SubSeq(self.host, 1, index - 1) \o <<" ">> \o self.hostPublicKey
        added == put(prepared.files, "known_hosts", knownHostEntry)
    IN  IF prepared.raised \/ alreadyKnown THEN prepared
        ELSE [raised |-> FALSE,
              files |-> IF \E k \in 1..Len(self.host) : self.host[k] = "."
                        THEN put(added, "known_hosts", knownShortHostEntry)
                        ELSE added]

----------------------------------------------------------------------------
(* RemoteTemporaryDirectory (client.py), the context manager of the tasks that *)
(* upload files: with RemoteTemporaryDirectory(client) as tmpDirectory: <body>  *)

\* RemoteTemporaryDirectory(client, prefix, delete): tmpDirectory is set by __enter__
RemoteTemporaryDirectory(delete) == [delete |-> delete, tmpDirectory |-> <<>>]

\* __enter__ after client.run("/bin/mktemp --directory ...") returned stdout and status:
\* raised is the RuntimeError, tmpDirectory is stdout.strip()
RemoteTemporaryDirectory_enter(self, stdout, status) ==
    IF status # 0 THEN [raised |-> TRUE, self |-> self]
    ELSE [raised |-> FALSE,
          self |-> [self EXCEPT !.tmpDirectory = SelectSeq(stdout, LAMBDA c : c \notin {" ", "\n"})]]

\* an __exit__ that removes the directory only when the body returned
RemoteTemporaryDirectory_exitAfterReturn(self, exception) ==
    [commands |-> IF self.delete /\ ~exception THEN <<self.tmpDirectory>> ELSE <<>>,
     returns |-> ~exception]

\* __exit__(exceptionType, exception, traceback): the directories it runs "/bin/rm -rf"
\* for, and what it returns (False lets the exception of the body go on)
RemoteTemporaryDirectory_exit(self, exception) ==
    [commands |-> IF self.delete THEN <<self.tmpDirectory>> ELSE <<>>,
     returns |-> ~exception]

----------------------------------------------------------------------------
(* What the ledger keeps of a node (base.py): DeploymentResult, DeploymentRunError *)

\* a record that keeps the node's password
ResultNodeWithPassword(node) == StoredNodeInfo(node)

\* DeploymentResult.__init__, lines 165-170: self.node
ResultNode(node) ==
    BaseNodeInfo(node.name,
                 IF node.public_ips # <<>> THEN node.public_ips[1] ELSE "",
                 IF node.private_ips # <<>> THEN node.private_ips[1] ELSE None,
                 None)

\* DeploymentRunError(node, exceptionString), lines 269-280, without status and output
DeploymentRunError(node, exceptionString) ==
    [node |-> BaseNodeInfo(node.name,
                           IF node.public_ips # <<>> THEN node.public_ips[1] ELSE "",
                           IF node.private_ips # <<>> THEN node.private_ips[1] ELSE None,
                           None),
     kind |-> "DeploymentRunError",
     value |-> exceptionString]

\* another exception a task raises: str(error) is its text
OtherException(text) == [kind |-> "Exception", text |-> text]

\* DeploymentResult(deployment, node, start, end) with the node it stores; error is None
NodeResult(deployment, node) ==
    [deployment |-> deployment, node |-> ResultNode(node), error |-> None]

\* DeploymentErrorResult(deployment, node, start, end, error), lines 189-204: error is a
\* DeploymentRunError or the text of another exception
NodeErrorResult(deployment, node, error) ==
    [deployment |-> deployment, node |-> ResultNode(node),
     error |-> IF error.kind = "DeploymentRunError" THEN error.value ELSE error.text]

\* what the tasks of a step do on a node
TaskOutcomes == {"returned", "Exception", "DeploymentRunError"}

\* nodeDeploy for the node: the result of the task, and the DeploymentRunError it raised
NodeDeployResult(deployment, node, outcome) ==
    IF outcome = "returned" THEN NodeResult(deployment, node)
    ELSE IF outcome = "Exception" THEN NodeErrorResult(deployment, node, OtherException(<<"x">>))
    ELSE NodeErrorResult(deployment, node, DeploymentRunError(node, <<"x", "x">>))

\* addResults for the results of one task on the nodes: {result.node.name: result}
NodeStep(deployment, nodeList, outcomes) ==
    [name \in {nodeList[k].name : k \in 1..Len(nodeList)} |->
        LET k == CHOOSE k \in 1..Len(nodeList) : nodeList[k].name = name
        IN  NodeDeployResult(deployment, nodeList[k], outcomes[k])]

\* the DeploymentRunError objects the tasks of the step raised
StepRunErrors(nodeList, outcomes) ==
    {DeploymentRunError(nodeList[k], <<"x", "x">>) :
        k \in {j \in 1..Len(nodeList) : outcomes[j] = "DeploymentRunError"}}

----------------------------------------------------------------------------
(* EtcHosts (util.py), an OrderedDict of ip -> set of aliases: the sequence of its items *)

\* ip in self
HasIp(self, ip) == \E k \in 1..Len(self) : self[k].ip = ip

\* self[ip]
AliasesOf(self, ip) == self[CHOOSE k \in 1..Len(self) : self[k].ip = ip].aliases

\* self[ip] = aliases: a new key goes to the end, a key that exists keeps its place
SetAliases(self, ip, aliases) ==
    IF HasIp(self, ip)
    THEN [k \in 1..Len(self) |-> IF self[k].ip = ip THEN [ip |-> ip, aliases |-> aliases] ELSE self[k]]
    ELSE Append(self, [ip |-> ip, aliases |-> aliases])

\* EtcHosts.fromString for the lines of a file that have an ip, each an ip and its aliases
RECURSIVE EtcHosts_fromString(_)
EtcHosts_fromString(lines) ==
    IF lines = <<>> THEN <<>>
    ELSE LET line == lines[Len(lines)]
         IN  SetAliases(EtcHosts_fromString(SubSeq(lines, 1, Len(lines) - 1)), line.ip, line.aliases)

\* the loop of lines 150-156: the alias is removed from every entry that has it, and an
\* entry that holds nothing after that is deleted
ReplaceAlias(self, alias) ==
    SelectSeq([k \in 1..Len(self) |-> [self[k] EXCEPT !.aliases = @ \ {alias}]],
              LAMBDA item : \E k \in 1..Len(self) :
                                /\ self[k].ip = item.ip
                                /\ ~(alias \in self[k].aliases /\ item.aliases = {}))

\* EtcHosts.add(alias, ip, replace), lines 129-159: what it returns and the object after it
EtcHosts_add(self, alias, ip, replace) ==
    LET withIp == IF HasIp(self, ip) THEN self ELSE SetAliases(self, ip, {})
    IN  IF alias \in AliasesOf(withIp, ip)
        THEN [returned |-> None, self |-> withIp]
        ELSE LET replaced == IF replace THEN ReplaceAlias(withIp, alias) ELSE withIp
             IN  [returned |-> alias,
                  self |-> SetAliases(replaced, ip, AliasesOf(replaced, ip) \cup {alias})]

----------------------------------------------------------------------------
(* Specifications *)

InitDeployIdle ==
    /\ pc = "idle"
    /\ deployments = <<>>
    /\ nodes = <<>>
    /\ nodeOrNodes = <<>>
    /\ connectedClients = <<>>
    /\ clientState = <<>>
    /\ clients = <<>>
    /\ deploymentIndex = 0
    /\ workers = <<>>
    /\ clusterRan = <<>>
    /\ clusterOutcome = <<>>
    /\ nodeClientTuples = <<>>
    /\ ranOnClosed = FALSE
    /\ deploymentResults = NewDeploymentResults

InitLedgerIdle == lastAdded = [results |-> <<>>, errorsBefore |-> 0]

\* no getNodesByNames call was made
NoCall == [names |-> <<>>, nodes |-> <<>>, called |-> FALSE]

InitLoadIdle ==
    /\ hjsonPlan = <<>>
    /\ loadResults = NoLoads
    /\ tokenLoop = NoItems

InitCallsIdle ==
    /\ addedNodes = <<>>
    /\ resolved = NoCall
    /\ InitLoadIdle
    /\ InitUtilIdle

(* SpecLedger: any sequence of addResult and addResults calls on one ledger *)

LedgerNames == {n1, n2}

LedgerResults ==
    {DeploymentResult(Deployment(1), name) : name \in LedgerNames}
        \cup {DeploymentErrorResult(Deployment(1), name) : name \in LedgerNames}

LedgerAddResult(result) ==
    /\ Len(deploymentResults.steps) < MaxSteps
    /\ deploymentResults' = addResult(deploymentResults, result)
    /\ lastAdded' = [results |-> <<result>>, errorsBefore |-> numberOfErrors(deploymentResults)]
    /\ UNCHANGED <<pc, deployments, nodes, connectedClients, clientState, clients,
                   deploymentIndex, workers, clusterRan, ranOnClosed, mainVars, callVars, mainLog, deployLog>>

LedgerAddResults(resultList) ==
    /\ Len(deploymentResults.steps) < MaxSteps
    /\ deploymentResults' = addResults(deploymentResults, resultList)
    /\ lastAdded' = [results |-> resultList, errorsBefore |-> numberOfErrors(deploymentResults)]
    /\ UNCHANGED <<pc, deployments, nodes, connectedClients, clientState, clients,
                   deploymentIndex, workers, clusterRan, ranOnClosed, mainVars, callVars, mainLog, deployLog>>

InitLedger == InitDeployIdle /\ InitMainIdle /\ InitLedgerIdle /\ InitCallsIdle

NextLedger ==
    \/ \E result \in LedgerResults : LedgerAddResult(result)
    \/ \E resultList \in SeqsUpTo(LedgerResults, MaxResults) : LedgerAddResults(resultList)

SpecLedger == InitLedger /\ [][NextLedger]_vars

(* SpecRegistry: any sequence of NodesInfoMap.add calls, getNodesByNames calls in between *)

\* the names nodes are registered under: n2 is the short name of n2.d, and n3.d
\* and n3.e share the short name n3, which no node has as its name
RegistryNames == {n2, n2d, n3d, n3e}

\* the nodes handed to add: with and without a password
RegistryInputs ==
    [name : RegistryNames, public_ips : {<<"1.2.3.4">>}, private_ips : {<<>>},
     extra : {<<>>, [password |-> "password"]}]

\* the name lists asked for: full names, short names, a name no node has (n0)
RequestChoices ==
    {<<>>, <<n2>>, <<n2d>>, <<n3>>, <<n3d>>, <<n3e>>, <<n0>>, <<n2, n2d>>, <<n2d, n2>>,
     <<n2, n2d, n0>>, <<n0, n3, n2>>, <<n3, n3>>}

RegistryAdd(node) ==
    /\ mainPc = "registry"
    /\ Len(addedNodes) < MaxAdds
    /\ LET self == add(NodesInfoMap(nodesInformation, nodeInfos), node)
       IN  /\ nodesInformation' = self.names
           /\ nodeInfos' = self.nodes
    /\ addedNodes' = Append(addedNodes, node)
    /\ resolved' = NoCall
    /\ UNCHANGED <<deployVars, mainPc, deploymentInfos, deploymentSections, sectionIndex,
                   exitCode, lastAdded, mainLog, loadVars, utilVars>>

RegistryGetNodesByNames(names) ==
    /\ mainPc = "registry"
    /\ LET found == getNodesByNames(nodesInformation, names)
       IN  resolved' = [names |-> names,
                        nodes |-> [k \in 1..Len(found) |-> nodeInfos[found[k]]],
                        called |-> TRUE]
    /\ UNCHANGED <<deployVars, mainVars, lastAdded, addedNodes, mainLog, loadVars, utilVars>>

InitRegistry ==
    /\ InitDeployIdle
    /\ InitLedgerIdle
    /\ InitCallsIdle
    /\ mainPc = "registry"
    /\ nodesInformation = <<>>
    /\ nodeInfos = <<>>
    /\ deploymentInfos = <<>>
    /\ deploymentSections = <<>>
    /\ sectionIndex = 0
    /\ exitCode = -1
    /\ deployCalls = <<>>
    /\ sectionErrors = <<>>

NextRegistry ==
    \/ \E node \in RegistryInputs : RegistryAdd(node)
    \/ \E names \in RequestChoices : RegistryGetNodesByNames(names)

SpecRegistry == InitRegistry /\ [][NextRegistry]_vars

(* SpecLoader: one plan, loaded from its canonical text, from its shorthand text *)
(* and from its dictionary                                                       *)

\* a parameter of a plan entry: its key, and the words of its value or the items of its list
Parameter(key, list, words) == [key |-> <<key>>, list |-> list, words |-> words]

\* the entries plans are made of: tasks without parameters, tasks with a parameter
\* object, with and without a target list, with a value of one word and of two; a
\* task no module has, a task without one of its required parameters, and a task
\* with a variadic constructor, with and without its list; a task with a parameter
\* its constructor does not have, a variadic task with a list of another name, and
\* a task whose constructor takes any keyword, without target list and with an empty one
EntryChoices ==
    { [name |-> <<"software", ".", "UpdateKernel">>, parameters |-> <<>>],
      [name |-> <<"ssh", ".", "AddKnownHost">>,
       parameters |-> <<Parameter("host", FALSE, <<<<"node2">>>>),
                        Parameter("hostPublicKey", FALSE, <<<<"AAAA">>>>),
                        Parameter("deploymentNodes", TRUE, <<<<"node1">>>>)>>],
      [name |-> <<"ssh", ".", "AddKnownHost">>,
       parameters |-> <<Parameter("host", FALSE, <<<<"node2">>>>),
                        Parameter("hostPublicKey", FALSE, <<<<"ssh-rsa">>, <<"AAAA">>>>)>>],
      [name |-> <<"ssh", ".", "AddKnownHost">>,
       parameters |-> <<Parameter("host", FALSE, <<<<"node2">>>>)>>],
      [name |-> <<"ssh", ".", "NoSuchTask">>, parameters |-> <<>>],
      [name |-> <<"software", ".", "InstallRPMPackages">>,
       parameters |-> <<Parameter("rpms", TRUE, <<<<"vim">>>>)>>],
      [name |-> <<"software", ".", "InstallRPMPackages">>, parameters |-> <<>>],
      [name |-> <<"ssh", ".", "AddKnownHost">>,
       parameters |-> <<Parameter("host", FALSE, <<<<"node2">>>>),
                        Parameter("comment", FALSE, <<<<"primary">>>>),
                        Parameter("hostPublicKey", FALSE, <<<<"AAAA">>>>)>>],
      [name |-> <<"software", ".", "InstallRPMPackages">>,
       parameters |-> <<Parameter("packages", TRUE, <<<<"vim">>>>)>>],
      [name |-> <<"node", ".", "SetKernelParameters">>,
       parameters |-> <<Parameter("kernel.domainname", FALSE, <<<<"cluster">>>>)>>],
      [name |-> <<"node", ".", "SetKernelParameters">>,
       parameters |-> <<Parameter("kernel.domainname", FALSE, <<<<"cluster">>>>),
                        Parameter("deploymentNodes", TRUE, <<>>)>>] }

\* the dictionary of a plan entry: what hjson.loads makes of its canonical text
EntryDict(entry) ==
    LET RECURSIVE joinWords(_)
        joinWords(words) ==
            IF Len(words) <= 1 THEN (IF words = <<>> THEN <<>> ELSE Head(words))
            ELSE Head(words) \o <<" ">> \o joinWords(Tail(words))
        ParameterValue(parameter) ==
            IF parameter.list
            THEN Value("list", [k \in 1..Len(parameter.words) |-> Value("str", parameter.words[k])])
            ELSE Value("str", joinWords(parameter.words))
    IN  Value("dict",
              <<[key |-> entry.name,
                 value |-> Value("dict", [k \in 1..Len(entry.parameters) |->
                                            [key |-> entry.parameters[k].key,
                                             value |-> ParameterValue(entry.parameters[k])]])]>>)

PlanDict(plan) ==
    Value("dict", <<[key |-> <<"deployments">>,
                     value |-> Value("list", [k \in 1..Len(plan) |-> EntryDict(plan[k])])]>>)

\* the lines of a parameter object, one parameter or list item per line
RECURSIVE parameterLines(_)
parameterLines(parameters) ==
    LET parameter == Head(parameters)
        RECURSIVE itemLines(_)
        itemLines(items) == IF items = <<>> THEN <<>> ELSE <<Head(items), NL>> \o itemLines(Tail(items))
    IN  IF parameters = <<>> THEN <<>>
        ELSE (IF parameter.list
              THEN <<parameter.key \o <<":">>, <<"[">>, NL>> \o itemLines(parameter.words)
                   \o <<<<"]">>, NL>>
              ELSE <<parameter.key \o <<":">>>> \o parameter.words \o <<NL>>)
             \o parameterLines(Tail(parameters))

\* an entry in syntax 1 of the module docstring ("canonical": in braces, "{}" for no
\* parameters) and in syntax 2 ("shorthand": no braces around the entry, the bare name
\* for no parameters); "compact" is syntax 2 with no blank between the colon after the
\* task name and the brace of the parameter object
entryText(entry, way) ==
    LET rest == parameterLines(entry.parameters) \o <<<<"}">>, NL>>
        object == <<<<"{">>, NL>> \o rest
    IN  IF way = "canonical"
        THEN <<<<"{">>, NL, entry.name \o <<":">>>>
             \o (IF entry.parameters = <<>> THEN <<<<"{", "}">>, NL>> ELSE object)
             \o <<<<"}">>, NL>>
        ELSE IF entry.parameters = <<>> THEN <<entry.name, NL>>
        ELSE IF way = "compact" THEN <<entry.name \o <<":", "{">>, NL>> \o rest
        ELSE <<entry.name \o <<":">>>> \o object

\* the text of a plan in one of these syntaxes
planText(plan, way) ==
    LET RECURSIVE entries(_)
        entries(rest) == IF rest = <<>> THEN <<>> ELSE entryText(Head(rest), way) \o entries(Tail(rest))
    IN  <<<<"deployments", ":">>, <<"[">>, NL>> \o entries(plan) \o <<<<"]">>>>

\* one load of the plan: fromHjson of one of its texts, or fromHjsonSerializable of its dictionary
Load(way) ==
    /\ mainPc = "load"
    /\ ~loadResults[way].done
    /\ loadResults' =
          [loadResults EXCEPT ![way] =
              IF way = "serializable" THEN DeploymentInfos_fromHjsonSerializable(PlanDict(hjsonPlan))
              ELSE DeploymentInfos_fromHjson(planText(hjsonPlan, way))]
    /\ tokenLoop' =
          IF way \in DOMAIN tokenLoop /\ ~regularSyntax(planText(hjsonPlan, way))
          THEN [tokenLoop EXCEPT ![way] =
                  findItems(Words(rawDeploymentsString(planText(hjsonPlan, way))), <<>>, 0, <<>>)]
          ELSE tokenLoop
    /\ UNCHANGED <<deployVars, mainVars, mainLog, lastAdded, addedNodes, resolved, hjsonPlan, utilVars>>

InitLoader ==
    /\ InitDeployIdle
    /\ InitLedgerIdle
    /\ addedNodes = <<>>
    /\ resolved = NoCall
    /\ mainPc = "load"
    /\ nodesInformation = <<>>
    /\ nodeInfos = <<>>
    /\ deploymentInfos = <<>>
    /\ deploymentSections = <<>>
    /\ sectionIndex = 0
    /\ exitCode = -1
    /\ deployCalls = <<>>
    /\ sectionErrors = <<>>
    /\ hjsonPlan \in SeqsUpTo(EntryChoices, MaxEntries)
    /\ loadResults = NoLoads
    /\ tokenLoop = NoItems
    /\ InitUtilIdle

NextLoader == \E way \in {"canonical", "shorthand", "compact", "serializable"} : Load(way)

SpecLoader == InitLoader /\ [][NextLoader]_vars

(* SpecTimer: one Timer process, util.py lines 292-334 *)

\* Timer(name, function, initial, repeat, interval) before start(); given is the repeat
\* it was made with, clock the time slept so far, calls the clock at each call
Timer(initial, repeat, interval) ==
    [initial |-> initial, repeat |-> repeat, interval |-> interval, given |-> repeat,
     pc |-> "sleep initial", clock |-> 0, calls |-> <<>>]

\* time.sleep(self.initial); either loop is entered, the function is called next
TimerSleepInitial ==
    /\ timer.pc = "sleep initial"
    /\ timer' = [timer EXCEPT !.clock = @ + timer.initial, !.pc = "function"]
    /\ UNCHANGED <<deployVars, mainVars, mainLog, lastAdded, addedNodes, resolved, loadVars,
                   remoteFiles, taskRuns, toolVars>>

\* self.function() returns, or raises into the except of run()
TimerFunction ==
    /\ timer.pc = "function"
    /\ Len(timer.calls) < MaxCalls
    /\ \E raised \in BOOLEAN :
         timer' = [timer EXCEPT !.calls = Append(@, timer.clock),
                                !.pc = IF raised THEN "forced exit" ELSE "sleep interval"]
    /\ UNCHANGED <<deployVars, mainVars, mainLog, lastAdded, addedNodes, resolved, loadVars,
                   remoteFiles, taskRuns, toolVars>>

\* time.sleep(self.interval), in the counting loop self.repeat -= 1, and the test of the while
TimerSleepInterval ==
    /\ timer.pc = "sleep interval"
    /\ LET repeat == IF timer.given < 0 THEN timer.repeat ELSE timer.repeat - 1
       IN  timer' = [timer EXCEPT !.clock = @ + timer.interval,
                                  !.repeat = repeat,
                                  !.pc = IF timer.given < 0 \/ repeat >= 0
                                         THEN "function" ELSE "returned"]
    /\ UNCHANGED <<deployVars, mainVars, mainLog, lastAdded, addedNodes, resolved, loadVars,
                   remoteFiles, taskRuns, toolVars>>

\* KeyboardInterrupt while the process sleeps
TimerInterrupt ==
    /\ timer.pc \in {"sleep initial", "sleep interval"}
    /\ timer' = [timer EXCEPT !.pc = "exiting"]
    /\ UNCHANGED <<deployVars, mainVars, mainLog, lastAdded, addedNodes, resolved, loadVars,
                   remoteFiles, taskRuns, toolVars>>

InitTimer ==
    /\ InitDeployIdle
    /\ InitMainIdle
    /\ InitLedgerIdle
    /\ addedNodes = <<>>
    /\ resolved = NoCall
    /\ InitLoadIdle
    /\ remoteFiles = <<>>
    /\ taskRuns = <<>>
    /\ InitToolsIdle
    /\ \E initial \in {0, 5} : \E repeat \in (-1)..MaxRepeat : \E interval \in {0, 10} :
            timer = Timer(initial, repeat, interval)

NextTimer == TimerSleepInitial \/ TimerFunction \/ TimerSleepInterval \/ TimerInterrupt

\* the process is scheduled and every sleep ends
SpecTimer ==
    InitTimer /\ [][NextTimer]_vars
    /\ WF_vars(TimerSleepInitial \/ TimerFunction \/ TimerSleepInterval)

(* SpecSsh: runs of the key and host tasks, one after the other, on one node *)

\* the tasks: a key without and with the newline of a key file, a second key; hosts
\* of which one is the beginning of another, and a host with a domain
SshTasks ==
    {[cls |-> "AddAuthorizedKey", publicKey |-> publicKey] :
        publicKey \in {<<"A">>, <<"A", "\n">>, <<"B">>}}
    \cup {[cls |-> "AddKnownHost", host |-> host, hostPublicKey |-> <<"K">>] :
            host \in {n1, n10, n2d}}

\* one run of a task on the node, as deploy() makes it in a worker
TaskRun(self) ==
    /\ Len(taskRuns) < MaxRuns
    /\ LET ran == IF self.cls = "AddAuthorizedKey" THEN AddAuthorizedKey_run(self, remoteFiles)
                  ELSE AddKnownHost_run(self, remoteFiles)
       IN  /\ remoteFiles' = ran.files
           /\ taskRuns' = Append(taskRuns, [task |-> self, raised |-> ran.raised,
                                            before |-> remoteFiles, after |-> ran.files])
    /\ UNCHANGED <<deployVars, mainVars, mainLog, lastAdded, addedNodes, resolved, loadVars, timer,
                   toolVars>>

\* the node before the first run: with and without a host name in its network file,
\* each of the two files missing, empty, or with one line of another key or host
InitSsh ==
    /\ InitDeployIdle
    /\ InitMainIdle
    /\ InitLedgerIdle
    /\ addedNodes = <<>>
    /\ resolved = NoCall
    /\ InitLoadIdle
    /\ timer = NoTimer
    /\ taskRuns = <<>>
    /\ InitToolsIdle
    /\ \E network \in {<<>>, <<"HOSTNAME=", "n", "1", "\n">>} :
       \E keys \in {[isFile |-> FALSE, content |-> <<>>], [isFile |-> TRUE, content |-> <<>>],
                    [isFile |-> TRUE, content |-> <<"B", "\n">>]} :
       \E hosts \in {[isFile |-> FALSE, content |-> <<>>], [isFile |-> TRUE, content |-> <<>>],
                     [isFile |-> TRUE, content |-> n10 \o <<" ", "K", "\n">>]} :
            remoteFiles = [network |-> network, authorized_keys |-> keys, known_hosts |-> hosts]

NextSsh == \E self \in SshTasks : TaskRun(self)

SpecSsh == InitSsh /\ [][NextSsh]_vars

(* SpecDirectory: with statements on one client, one after the other *)

\* the statement is entered: the object is made, __enter__ runs mktemp on the node, which
\* makes a directory of a new name and prints it, or fails
WithEnter(delete) ==
    /\ temporaryDirectory.pc = "idle"
    /\ Len(temporaryDirectory.ended) < MaxWith
    /\ \E status \in {0, 1} :
        LET name == [k \in 1..(Len(temporaryDirectory.ended) + 1) |-> "x"]
            stdout == IF status = 0 THEN name \o <<"\n">> ELSE <<>>
            entered == RemoteTemporaryDirectory_enter(RemoteTemporaryDirectory(delete), stdout, status)
        IN  temporaryDirectory' =
                [temporaryDirectory EXCEPT
                    !.self = entered.self,
                    !.commands = Append(@, [cmd |-> "mktemp", directory |-> <<>>, status |-> status]),
                    !.directories = IF status = 0 THEN @ \cup {name} ELSE @,
                    !.pc = IF entered.raised THEN "idle" ELSE "body",
                    !.ended = IF entered.raised
                              THEN Append(@, [self |-> entered.self, body |-> "not run",
                                              raised |-> "RuntimeError"])
                              ELSE @]
    /\ UNCHANGED <<deployVars, mainVars, mainLog, lastAdded, addedNodes, resolved, loadVars,
                   timer, remoteFiles, taskRuns, passwordRuns, etcHosts>>

\* the body of the statement returns or raises
WithBody ==
    /\ temporaryDirectory.pc = "body"
    /\ \E exception \in BOOLEAN :
        temporaryDirectory' = [temporaryDirectory EXCEPT !.exception = exception, !.pc = "exit"]
    /\ UNCHANGED <<deployVars, mainVars, mainLog, lastAdded, addedNodes, resolved, loadVars,
                   timer, remoteFiles, taskRuns, passwordRuns, etcHosts>>

\* __exit__ is called with the exception of the body, if any; the statement raises that
\* exception unless __exit__ returned True
WithExit ==
    /\ temporaryDirectory.pc = "exit"
    /\ \E status \in {0, 1} :
        LET self == temporaryDirectory.self
            exception == temporaryDirectory.exception
            exited == RemoteTemporaryDirectory_exit(self, exception)
        IN  temporaryDirectory' =
                [temporaryDirectory EXCEPT
                    !.commands = @ \o [k \in 1..Len(exited.commands) |->
                                        [cmd |-> "rm", directory |-> exited.commands[k],
                                         status |-> status]],
                    !.directories = IF status = 0
                                    THEN @ \ {exited.commands[k] : k \in 1..Len(exited.commands)}
                                    ELSE @,
                    !.exception = FALSE,
                    !.pc = "idle",
                    !.ended = Append(@, [self |-> self,
                                         body |-> IF exception THEN "raised" ELSE "returned",
                                         raised |-> IF exception /\ ~exited.returns
                                                    THEN "exception of the body" ELSE "nothing"])]
    /\ UNCHANGED <<deployVars, mainVars, mainLog, lastAdded, addedNodes, resolved, loadVars,
                   timer, remoteFiles, taskRuns, passwordRuns, etcHosts>>

InitDirectory ==
    /\ InitDeployIdle
    /\ InitMainIdle
    /\ InitLedgerIdle
    /\ addedNodes = <<>>
    /\ resolved = NoCall
    /\ InitLoadIdle
    /\ timer = NoTimer
    /\ remoteFiles = <<>>
    /\ taskRuns = <<>>
    /\ passwordRuns = [nodes |-> <<>>]
    /\ etcHosts = [calls |-> <<>>]
    /\ temporaryDirectory = [pc |-> "idle", self |-> RemoteTemporaryDirectory(TRUE),
                             exception |-> FALSE, commands |-> <<>>, directories |-> {},
                             ended |-> <<>>]

SpecDirectory ==
    InitDirectory /\ [][(\E delete \in BOOLEAN : WithEnter(delete)) \/ WithBody \/ WithExit]_vars

(* SpecPasswords: two runs of the same tasks on nodes that differ only in their passwords *)

\* passwords of a node: none, or one of two
Passwords == {None, "secret", "other"}

\* the two nodes of a run, the second with a private address
RunNodes(passwords) ==
    <<BaseNodeInfo(n1, "1.2.3.4", None, passwords[1]),
      BaseNodeInfo(n2, "1.2.3.5", "10.0.0.5", passwords[2])>>

\* if deploymentResults.numberOfErrors: break, for a ledger of these records
RecordedErrors(results) ==
    \E s \in 1..Len(results.steps) : \E name \in DOMAIN results.steps[s] :
        results.steps[s][name].error # None

\* one task ran on every node, in both runs with the same outcomes, and its results went
\* into the ledger of the run; no task runs after one that failed
RecordStep ==
    /\ passwordRuns.nodes # <<>>
    /\ Len(passwordRuns.results[1].steps) < MaxRecords
    /\ ~RecordedErrors(passwordRuns.results[1])
    /\ \E outcomes \in [1..2 -> TaskOutcomes] :
        LET deployment == Deployment(Len(passwordRuns.results[1].steps) + 1)
        IN  passwordRuns' =
                [passwordRuns EXCEPT
                    !.results = [run \in 1..2 |->
                        [@[run] EXCEPT !.steps =
                            Append(@, NodeStep(deployment, passwordRuns.nodes[run], outcomes))]],
                    !.errors = [run \in 1..2 |->
                        @[run] \cup StepRunErrors(passwordRuns.nodes[run], outcomes)]]
    /\ UNCHANGED <<deployVars, mainVars, mainLog, lastAdded, addedNodes, resolved, loadVars,
                   timer, remoteFiles, taskRuns, temporaryDirectory, etcHosts>>

InitPasswords ==
    /\ InitDeployIdle
    /\ InitMainIdle
    /\ InitLedgerIdle
    /\ addedNodes = <<>>
    /\ resolved = NoCall
    /\ InitLoadIdle
    /\ timer = NoTimer
    /\ remoteFiles = <<>>
    /\ taskRuns = <<>>
    /\ temporaryDirectory = [pc |-> "none"]
    /\ etcHosts = [calls |-> <<>>]
    /\ \E first \in [1..2 -> Passwords], second \in [1..2 -> Passwords] :
        passwordRuns = [nodes |-> <<RunNodes(first), RunNodes(second)>>,
                        results |-> <<NewDeploymentResults, NewDeploymentResults>>,
                        errors |-> <<{}, {}>>]

SpecPasswords == InitPasswords /\ [][RecordStep]_vars

(* SpecEtcHosts: adds with replace=True to an object loaded from a file, as in *)
(* AddToEtcHosts.run                                                          *)

HostIps == {"10.0.0.1", "10.0.0.2", "::1"}
HostAliases == {"localhost", "n1"}

\* the files that are read: up to two lines with an ip, each with any aliases
HostsFiles ==
    LET lines == [ip : HostIps, aliases : SUBSET HostAliases]
    IN  {<<>>} \cup {<<l>> : l \in lines} \cup {<<l, m>> : l \in lines, m \in lines}

\* etcHosts.add(hostname, self.ip, replace=True)
AddAlias(alias, ip) ==
    /\ "file" \in DOMAIN etcHosts
    /\ Len(etcHosts.calls) < MaxAliases
    /\ LET added == EtcHosts_add(etcHosts.self, alias, ip, TRUE)
       IN  etcHosts' = [etcHosts EXCEPT
                            !.self = added.self,
                            !.calls = Append(@, [alias |-> alias, ip |-> ip,
                                                 before |-> etcHosts.self,
                                                 returned |-> added.returned])]
    /\ UNCHANGED <<deployVars, mainVars, mainLog, lastAdded, addedNodes, resolved, loadVars,
                   timer, remoteFiles, taskRuns, temporaryDirectory, passwordRuns>>

InitEtcHosts ==
    /\ InitDeployIdle
    /\ InitMainIdle
    /\ InitLedgerIdle
    /\ addedNodes = <<>>
    /\ resolved = NoCall
    /\ InitLoadIdle
    /\ timer = NoTimer
    /\ remoteFiles = <<>>
    /\ taskRuns = <<>>
    /\ temporaryDirectory = [pc |-> "none"]
    /\ passwordRuns = [nodes |-> <<>>]
    /\ \E file \in HostsFiles :
        etcHosts = [file |-> file, self |-> EtcHosts_fromString(file), calls |-> <<>>]

SpecEtcHosts ==
    InitEtcHosts /\ [][\E alias \in HostAliases, ip \in HostIps : AddAlias(alias, ip)]_vars

(* SpecSections: getDeploymentSections applied to any plan and inventory *)

\* the inventories: NodesInfoMap.nodes as the sequence of its keys in dict order
RegistryChoices == {<<>>, <<n1, n2, n10>>, <<n10, n2, n1>>, <<n2d, n1>>}

\* the deploymentNodes of a plan entry: none, one name, two names in either
\* order, a name twice, a name no node has (n0); n2 is also the short name of n2.d
TargetChoices ==
    {<<>>, <<n1>>, <<n2>>, <<n0>>, <<n1, n2>>, <<n2, n1>>, <<n1, n1>>, <<n2, n0>>}

Plans(n, kinds, targetChoices) ==
    UNION {[1..k -> [deployment : {[id |-> 0, kind |-> kind] : kind \in kinds},
                     nodes : targetChoices]] : k \in 0..n}

\* the deployment of the k-th plan entry is identified by k
NumberedPlan(plan) ==
    [k \in 1..Len(plan) |-> DeploymentInfo([plan[k].deployment EXCEPT !.id = k], plan[k].nodes)]

InitSections ==
    /\ InitDeployIdle
    /\ InitLedgerIdle
    /\ InitCallsIdle
    /\ mainPc = "plan"
    /\ nodesInformation \in RegistryChoices
    /\ nodeInfos = RegistryOf(nodesInformation)
    /\ \E plan \in Plans(MaxPlan, {"node"}, TargetChoices) : deploymentInfos = NumberedPlan(plan)
    /\ deploymentSections = <<>>
    /\ sectionIndex = 0
    /\ exitCode = -1
    /\ deployCalls = <<>>
    /\ sectionErrors = <<>>

GetSections ==
    /\ mainPc = "plan"
    /\ deploymentSections' = getDeploymentSections(deploymentInfos, nodesInformation)
    /\ mainPc' = "sections"
    /\ UNCHANGED <<deployVars, nodesInformation, nodeInfos, deploymentInfos, sectionIndex, exitCode, lastAdded, callVars, mainLog>>

NextSections == GetSections

SpecSections == InitSections /\ [][NextSections]_vars

(* SpecMain: main() with a configuration file, lines 262-279 *)

MainRegistryChoices == {<<>>, <<n1, n2>>}

MainTargetChoices == {<<>>, <<n0>>, <<n1>>}

\* deploy(deployments, nodes, ...) is called
DeployCall(taskList, nodeList) ==
    /\ pc' = "called"
    /\ deployments' = taskList
    /\ nodes' = nodeList
    /\ nodeOrNodes' = nodeList
    /\ connectedClients' = <<>>
    /\ clientState' = <<>>
    /\ clients' = <<>>
    /\ deploymentIndex' = 0
    /\ workers' = <<>>
    /\ clusterRan' = <<>>
    /\ clusterOutcome' = <<>>
    /\ nodeClientTuples' = <<>>
    /\ ranOnClosed' = FALSE
    /\ deploymentResults' = NewDeploymentResults

InitMain ==
    /\ InitDeployIdle
    /\ InitLedgerIdle
    /\ InitCallsIdle
    /\ mainPc = "plan"
    /\ nodesInformation \in MainRegistryChoices
    /\ nodeInfos = RegistryOf(nodesInformation)
    /\ \E plan \in Plans(MaxMainPlan, {"node", "cluster"}, MainTargetChoices) :
            deploymentInfos = NumberedPlan(plan)
    /\ deploymentSections = <<>>
    /\ sectionIndex = 0
    /\ exitCode = -1
    /\ deployCalls = <<>>
    /\ sectionErrors = <<>>

\* a driver that goes on after a section with a single error
ResultsHaveErrorsMutant(results) == numberOfErrors(results) > 1

\* line 276: if results.numberOfErrors
ResultsHaveErrors(results) == numberOfErrors(results) > 0

\* line 273: the sections of the plan
MainGetSections ==
    /\ mainPc = "plan"
    /\ deploymentSections' = getDeploymentSections(deploymentInfos, nodesInformation)
    /\ sectionIndex' = 1
    /\ mainPc' = "loop"
    /\ UNCHANGED <<deployVars, nodesInformation, nodeInfos, deploymentInfos, exitCode, lastAdded, callVars, mainLog>>

\* lines 273-275: the next section is deployed
MainDeploy ==
    /\ mainPc = "loop"
    /\ sectionIndex <= Len(deploymentSections)
    /\ DeployCall(deploymentSections[sectionIndex].deployments,
                  deploymentSections[sectionIndex].nodes)
    /\ mainPc' = "deploying"
    /\ deployCalls' = Append(deployCalls, sectionIndex)
    /\ UNCHANGED <<nodesInformation, nodeInfos, deploymentInfos, deploymentSections, sectionIndex,
                   exitCode, lastAdded, callVars, sectionErrors>>

\* lines 276-277: deploy() returned its ledger
MainAfterDeploy ==
    /\ mainPc = "deploying"
    /\ pc = "returned"
    /\ IF ResultsHaveErrors(deploymentResults)
       THEN /\ exitCode' = numberOfErrors(deploymentResults)
            /\ mainPc' = "exit"
            /\ UNCHANGED sectionIndex
       ELSE /\ sectionIndex' = sectionIndex + 1
            /\ mainPc' = "loop"
            /\ UNCHANGED exitCode
    /\ sectionErrors' = Append(sectionErrors, numberOfErrors(deploymentResults))
    /\ UNCHANGED <<deployVars, nodesInformation, nodeInfos, deploymentInfos, deploymentSections,
                   lastAdded, callVars, deployCalls>>

\* deploy() raised: nothing in main() catches it
MainRaised ==
    /\ mainPc = "deploying"
    /\ pc = "raised"
    /\ mainPc' = "raised"
    /\ UNCHANGED <<deployVars, nodesInformation, nodeInfos, deploymentInfos, deploymentSections,
                   sectionIndex, exitCode, lastAdded, callVars, mainLog>>

\* line 279: every section was deployed
MainReturn ==
    /\ mainPc = "loop"
    /\ sectionIndex > Len(deploymentSections)
    /\ exitCode' = 0
    /\ mainPc' = "exit"
    /\ UNCHANGED <<deployVars, nodesInformation, nodeInfos, deploymentInfos, deploymentSections,
                   sectionIndex, lastAdded, callVars, mainLog>>

NextMain ==
    \/ MainGetSections
    \/ MainDeploy
    \/ MainAfterDeploy
    \/ MainRaised
    \/ MainReturn
    \/ Next

SpecMain == InitMain /\ [][NextMain]_vars

----------------------------------------------------------------------------
(* Properties of deploy(), checked under Spec *)

NodeIndexes == 1..Len(nodes)

\* the run of task t was invoked at least once (a worker left the queue, or the cluster run)
Started(t) ==
    \/ clusterRan[t] > 0
    \/ \E i \in 1..Len(workers[t]) : workers[t][i] \in {"running", "success", "error"}

AnyStarted == \E t \in 1..Len(workers) : Started(t)

ConnectFailure == \E i \in 1..Len(connectedClients) : connectedClients[i] = "None"

AllConnected ==
    /\ Len(connectedClients) = Len(nodes)
    /\ \A i \in 1..Len(connectedClients) : connectedClients[i] = "client"

DistinctNames(nodeList) ==
    \A i, j \in 1..Len(nodeList) : nodeList[i] = nodeList[j] => i = j

\* C1: stop-on-error. A task whose run was invoked found the ledger, as it stood
\* when the tasks before it had completed (one step per earlier task), free of
\* error records: once a task left an error, no later task is started.
C1_StopOnError ==
    \A t \in 1..Len(workers) :
        Started(t) =>
            /\ Len(deploymentResults.steps) >= t - 1
            /\ SumErrors(SubSeq(deploymentResults.steps, 1, t - 1)) = 0

\* a deploy that returned after the first task failed on a node, the second task never started
C1_Witness ==
    /\ pc = "returned"
    /\ Len(deployments) = 2
    /\ Len(nodes) >= 2
    /\ Started(1) /\ ~Started(2)
    /\ numberOfErrors(deploymentResults) >= 1

\* C2: connection all-or-nothing. When a node failed to connect no run is ever
\* invoked, and the returned ledger is one step with one error record.
C2_ConnectAllOrNothing ==
    ConnectFailure =>
        /\ ~AnyStarted
        /\ pc = "returned" =>
            /\ Len(deploymentResults.steps) = 1
            /\ Cardinality(DOMAIN deploymentResults.steps[1]) = 1
            /\ numberOfErrors(deploymentResults) = 1

\* two nodes failed to connect, one connected, deploy returned
C2_Witness ==
    /\ pc = "returned"
    /\ Cardinality({i \in 1..Len(connectedClients) : connectedClients[i] = "None"}) = 2
    /\ \E i \in 1..Len(connectedClients) : connectedClients[i] = "client"

\* C3 (as claimed): when a node failed to connect, no session is open once deploy returned.
C3_PartialConnectionsReleased ==
    (pc = "returned" /\ ConnectFailure) =>
        \A i \in 1..Len(clientState) : clientState[i] # "open"

\* C4: teardown. When every node connected, each session is closed when deploy
\* returns, whatever the tasks did, and no run was invoked on a closed session.
C4_Teardown ==
    /\ ~ranOnClosed
    /\ (pc = "returned" /\ AllConnected) =>
            \A i \in 1..Len(clientState) : clientState[i] = "closed"

\* deploy returned after a task failed, with at least two sessions, all closed
C4_Witness ==
    /\ pc = "returned"
    /\ AllConnected
    /\ Len(nodes) >= 2
    /\ numberOfErrors(deploymentResults) >= 1
    /\ \A i \in 1..Len(clientState) : clientState[i] = "closed"

\* C5: strict sequential ordering. A task is started only when every worker of
\* every earlier task has returned, so all running workers belong to one task.
C5_SequentialTasks ==
    /\ \A t1, t2 \in 1..Len(workers) :
            (t1 < t2 /\ Started(t2)) =>
                \A i \in 1..Len(workers[t1]) : workers[t1][i] \notin {"queued", "running"}
    /\ \A t1, t2 \in 1..Len(workers) :
            \A i \in 1..Len(workers[t1]) : \A j \in 1..Len(workers[t2]) :
                (workers[t1][i] = "running" /\ workers[t2][j] = "running") => t1 = t2

\* a worker of the second task runs after all workers of the first have returned
C5_Witness ==
    /\ Len(workers) = 2
    /\ Len(nodes) >= 2
    /\ \A i \in NodeIndexes : workers[1][i] \in {"success", "error"}
    /\ \E i \in NodeIndexes : workers[2][i] = "running"
    /\ \E i \in NodeIndexes : workers[2][i] = "queued"

\* C6 (as claimed): the step of a per-node task holds, for every worker, a record
\* under its node that is an error record exactly if the worker's run raised.
C6_FailureIsolation ==
    \A t \in 1..Len(workers) :
        (AllConnected /\ deployments[t].kind = "node" /\ Len(deploymentResults.steps) >= t) =>
            \A i \in NodeIndexes :
                /\ nodes[i] \in DOMAIN deploymentResults.steps[t]
                /\ deploymentResults.steps[t][nodes[i]].error = (workers[t][i] = "error")

\* C7: with distinct node names that all connect and per-node tasks that succeed
\* everywhere, the returned ledger has no error and one record per (task, node).
C7_AllSucceed ==
    (/\ pc = "returned"
     /\ DistinctNames(nodes)
     /\ ~ConnectFailure
     /\ \A t \in 1..Len(deployments) : deployments[t].kind = "node"
     /\ \A t \in 1..Len(workers) : \A i \in 1..Len(workers[t]) : workers[t][i] = "success")
    => /\ numberOfErrors(deploymentResults) = 0
       /\ Len(deploymentResults.steps) = Len(deployments)
       /\ \A t \in 1..Len(deployments) :
            /\ DOMAIN deploymentResults.steps[t] = {nodes[i] : i \in NodeIndexes}
            /\ Cardinality(DOMAIN deploymentResults.steps[t]) = Len(nodes)
            /\ \A i \in NodeIndexes :
                deploymentResults.steps[t][nodes[i]] = DeploymentResult(deployments[t], nodes[i])

\* two per-node tasks succeeded on three distinct nodes
C7_Witness ==
    /\ pc = "returned"
    /\ DistinctNames(nodes)
    /\ Len(nodes) = 3
    /\ Len(deployments) = 2
    /\ \A t \in 1..Len(workers) : \A i \in 1..Len(workers[t]) : workers[t][i] = "success"

\* the run of cluster task t was invoked
ClusterInvoked(t) == clusterRan[t] > 0

\* the node the record of cluster task t is attributed to by the code
ClusterRecordNode(t) ==
    IF clusterOutcome[t].outcome = "DeploymentRunError" THEN clusterOutcome[t].node ELSE nodes[1]

\* the run of cluster task t got the whole sorted node list and the name -> session map
ClusterRunArguments(t) ==
    /\ clusterOutcome[t].nodes = nodes
    /\ clusterOutcome[t].clients = clients
    /\ DOMAIN clients = NameSet(nodes)
    /\ \A name \in DOMAIN clients : nodes[clients[name]] = name

C17_ClusterExceptionContained ==
    \A t \in 1..Len(clusterRan) :
        (ClusterInvoked(t) /\ clusterOutcome[t].outcome \in {"DeploymentRunError", "Exception"}) =>
            /\ pc # "raised"
            /\ Len(deploymentResults.steps) >= t
            /\ Cardinality(DOMAIN deploymentResults.steps[t]) = 1
            /\ ErrorsOfStep(deploymentResults.steps[t]) = 1
            /\ pc = "returned" =>
                /\ numberOfErrors(deploymentResults) >= 1
                /\ \A i \in 1..Len(clientState) : clientState[i] = "closed"

\* the number a name n<digits> ends in
NameNumber(name) == IntOf(Tail(name))

\* the list is a reordering of the other: every name occurs as often
SameBag(a, b) ==
    /\ Len(a) = Len(b)
    /\ \A name \in NameSet(a) \cup NameSet(b) :
            Cardinality({i \in 1..Len(a) : a[i] = name}) = Cardinality({i \in 1..Len(b) : b[i] = name})

SessionMap ==
    /\ (AllConnected /\ pc \in {"loop", "fanout", "close", "raised"}) =>
            /\ DOMAIN clients = NameSet(nodeOrNodes)
            /\ \A name \in DOMAIN clients :
                    nodes[clients[name]] = name /\ connectedClients[clients[name]] = "client"
    /\ \A t \in 1..Len(nodeClientTuples) :
            \A i \in 1..Len(nodeClientTuples[t]) :
                /\ nodeClientTuples[t][i].node = nodes[i]
                /\ nodes[nodeClientTuples[t][i].client] = nodes[i]
                /\ connectedClients[nodeClientTuples[t][i].client] = "client"

\* C29: when all nodes connect, the name -> session map has exactly the requested node
\* names as keys and holds under each name a session opened to that node; it is built
\* once, after the connect phase, and not changed while tasks run; the worker of a
\* per-node task for node n is called with a session that was opened to n.
C29_SessionMap ==
    /\ []SessionMap
    /\ [][clients' # clients => (pc = "connect" /\ pc' = "loop")]_vars

\* workers of the second task are out on three nodes of different names
C29_Witness ==
    /\ pc = "fanout"
    /\ deploymentIndex = 2
    /\ Len(nodes) = 3
    /\ DistinctNames(nodes)
    /\ Cardinality(DOMAIN clients) = 3
    /\ Len(nodeClientTuples[2]) = 3
    /\ workers[2][3] = "running"

\* the steps of the ledger
Steps == deploymentResults.steps

\* what the ledger of a deploy() whose nodes all connected looks like
StepStructure ==
    AllConnected =>
        /\ \A s \in 1..Len(Steps) :
            /\ \A name \in DOMAIN Steps[s] :
                    Steps[s][name].deployment = deployments[s] /\ Steps[s][name].node = name
            /\ deployments[s].kind = "node" => DOMAIN Steps[s] = NameSet(nodes)
            /\ deployments[s].kind = "cluster" => Cardinality(DOMAIN Steps[s]) = 1
        /\ pc \in {"close", "returned", "raised"} => Len(Steps) = deploymentIndex

\* C28 (as claimed): when all nodes connect, the i-th step belongs to the i-th executed
\* task; a per-node task has one step keyed by node name with a record per node, a
\* cluster task one step with exactly one record; there are as many steps as tasks
\* were executed when the loop ended; a step once appended is never changed or removed.
C28_StepStructure ==
    /\ []StepStructure
    /\ [][\A s \in 1..Len(Steps) : Len(Steps') >= s /\ Steps'[s] = Steps[s]]_vars

\* C30 (as claimed): however the workers of a per-node task interleave, no result
\* record is lost and the task has exactly one complete step, at the task's place:
\* no step while workers are out, then one step with the result of every worker.
C30_SerializedAppends ==
    AllConnected =>
        /\ pc = "fanout" => Len(Steps) = deploymentIndex - 1
        /\ \A t \in 1..Len(Steps) :
                deployments[t].kind = "node" =>
                    /\ Cardinality(DOMAIN Steps[t]) = Len(nodes)
                    /\ \A i \in NodeIndexes : Steps[t][nodes[i]] = WorkerResult(t, i)

\* C34: deploy() with an empty task list returns an empty ledger (no step, no
\* error) and connects to no node: no session is opened, no connect is attempted
\* and no worker is started, whatever the node list.
C34_NothingToDeploy ==
    deployments = <<>> =>
        /\ pc \in {"called", "returned"}
        /\ workers = <<>>
        /\ clusterRan = <<>>
        /\ clients = <<>>
        /\ \A i \in 1..Len(clientState) : clientState[i] = "unconnected"
        /\ \A i \in 1..Len(connectedClients) : connectedClients[i] = "pending"
        /\ pc = "returned" =>
            /\ deploymentResults.steps = <<>>
            /\ numberOfErrors(deploymentResults) = 0

\* deploy([], nodes) returned for a list of three nodes
C34_Witness ==
    /\ pc = "returned"
    /\ deployments = <<>>
    /\ Len(nodeOrNodes) = 3
    /\ deploymentResults = NewDeploymentResults

\* C35 (as claimed): deploy() with an empty node list and a non-empty task list does
\* not raise, and the ledger it returns has no error, for per-node and cluster tasks.
C35_EmptyNodeList ==
    (nodeOrNodes = <<>> /\ deployments # <<>>) =>
        /\ pc # "raised"
        /\ pc = "returned" => numberOfErrors(deploymentResults) = 0

\* C39: when a node failed to connect, the returned ledger is one step with one
\* error record of the NodeDeploymentException task under the node that is first
\* in natural order of the list deploy() was called with: it depends on the node
\* list only, not on which nodes failed to connect.
C39_ConnectivityRecord ==
    (pc = "returned" /\ ConnectFailure) =>
        \E first \in NameSet(nodeOrNodes) :
            /\ \A other \in NameSet(nodeOrNodes) : NameNumber(first) <= NameNumber(other)
            /\ deploymentResults =
                [steps |-> <<(first :> [deployment |-> NodeDeploymentException,
                                        node |-> first, error |-> TRUE])>>]

\* deploy() was called with [n2, n10, n1]; only the connect to n10 failed and the
\* error record is under n1
C39_Witness ==
    /\ pc = "returned"
    /\ nodeOrNodes = <<n2, n10, n1>>
    /\ connectedClients = <<"client", "client", "None">>
    /\ deploymentResults.steps[1][n1].deployment = NodeDeploymentException

----------------------------------------------------------------------------
(* Properties of the ledger, checked under SpecLedger *)

ErrorEntries(results) ==
    UNION {{<<s, name>> : name \in {n \in DOMAIN results.steps[s] : results.steps[s][n].error}} :
                s \in 1..Len(results.steps)}

\* C8: ledger invariant. numberOfErrors is the number of (step, node) entries that
\* hold an error record; a call that added only success records left it as it
\* was, a call that added k error records for k distinct node names raised it by k.
C8_LedgerInvariant ==
    /\ numberOfErrors(deploymentResults) = Cardinality(ErrorEntries(deploymentResults))
    /\ (\A k \in 1..Len(lastAdded.results) : ~lastAdded.results[k].error)
            => numberOfErrors(deploymentResults) = lastAdded.errorsBefore
    /\ (/\ \A k \in 1..Len(lastAdded.results) : lastAdded.results[k].error
        /\ \A j, k \in 1..Len(lastAdded.results) :
                lastAdded.results[j].node = lastAdded.results[k].node => j = k)
            => numberOfErrors(deploymentResults) = lastAdded.errorsBefore + Len(lastAdded.results)

\* two error records for two nodes were added to a ledger that already held an error
C8_Witness ==
    /\ Len(deploymentResults.steps) = 2
    /\ lastAdded.errorsBefore = 1
    /\ Len(lastAdded.results) = 2
    /\ lastAdded.results[1].error /\ lastAdded.results[2].error
    /\ lastAdded.results[1].node # lastAdded.results[2].node
    /\ numberOfErrors(deploymentResults) = 3

----------------------------------------------------------------------------
(* Properties of getDeploymentSections, checked under SpecSections *)

\* the set of node names plan entry k resolves to
ResolvedSet(k) == NameSet(DeploymentNodes(deploymentInfos[k], nodesInformation))

RECURSIVE Concat(_)
Concat(seqs) == IF seqs = <<>> THEN <<>> ELSE Head(seqs) \o Concat(Tail(seqs))

SectionTasks == Concat([s \in 1..Len(deploymentSections) |-> deploymentSections[s].deployments])

\* C9: section grouping. The sections split the plan, in order, into the maximal
\* runs of consecutive entries with equal resolved node-name sets: within a
\* section all entries resolve to the section's set, adjacent sections differ in
\* their sets; the sets [{a,b},{a,b},{c},{a,b}] give three sections.
C9_SectionGrouping ==
    mainPc = "sections" =>
        /\ SectionTasks = [k \in 1..Len(deploymentInfos) |-> deploymentInfos[k].deployment]
        /\ \A s \in 1..Len(deploymentSections) :
            /\ deploymentSections[s].deployments # <<>>
            /\ \A d \in 1..Len(deploymentSections[s].deployments) :
                    ResolvedSet(deploymentSections[s].deployments[d].id)
                        = NameSet(deploymentSections[s].nodes)
        /\ \A s \in 1..(Len(deploymentSections) - 1) :
                NameSet(deploymentSections[s].nodes) # NameSet(deploymentSections[s + 1].nodes)
        /\ (/\ Len(deploymentInfos) = 4
            /\ ResolvedSet(1) = ResolvedSet(2)
            /\ ResolvedSet(2) # ResolvedSet(3)
            /\ ResolvedSet(4) = ResolvedSet(1)) => Len(deploymentSections) = 3

\* the plan with target sets {n1,n2}, {n2,n1}, {n2}, {n1,n2} was split into three sections
C9_Witness ==
    /\ mainPc = "sections"
    /\ nodesInformation = <<n1, n2, n10>>
    /\ Len(deploymentInfos) = 4
    /\ deploymentInfos[1].nodes = <<n1, n2>>
    /\ deploymentInfos[2].nodes = <<n2, n1>>
    /\ deploymentInfos[3].nodes = <<n2>>
    /\ deploymentInfos[4].nodes = <<n1, n2>>
    /\ Len(deploymentSections) = 3
    /\ Len(deploymentSections[1].deployments) = 2

\* the section that holds the deployment of plan entry k
SectionOf(k) ==
    CHOOSE s \in 1..Len(deploymentSections) :
        \E d \in 1..Len(deploymentSections[s].deployments) :
            deploymentSections[s].deployments[d].id = k

\* C22: a plan entry without target list is run on every node of the registry; an
\* entry with a target list is run on what getNodesByNames makes of that list.
C22_TargetResolution ==
    mainPc = "sections" =>
        \A k \in 1..Len(deploymentInfos) :
            /\ \E s \in 1..Len(deploymentSections) :
                    \E d \in 1..Len(deploymentSections[s].deployments) :
                        deploymentSections[s].deployments[d].id = k
            /\ NameSet(deploymentSections[SectionOf(k)].nodes)
                    = IF deploymentInfos[k].nodes = <<>>
                      THEN NameSet(nodesInformation)
                      ELSE NameSet(getNodesByNames(nodesInformation, deploymentInfos[k].nodes))

\* an entry without target list and an entry for n1, in a registry of three nodes
C22_Witness ==
    /\ mainPc = "sections"
    /\ nodesInformation = <<n1, n2, n10>>
    /\ Len(deploymentInfos) = 2
    /\ deploymentInfos[1].nodes = <<>>
    /\ deploymentInfos[2].nodes = <<n1>>
    /\ Len(deploymentSections) = 2
    /\ deploymentSections[1].nodes = <<n1, n2, n10>>
    /\ deploymentSections[2].nodes = <<n1>>

\* C26: the sections conserve the plan: their task lists, concatenated in order, are
\* the tasks of the plan in plan order; no section has an empty task list; the node
\* list of a section is the node list its first entry resolves to.
C26_PlanConserved ==
    mainPc = "sections" =>
        /\ SectionTasks = [k \in 1..Len(deploymentInfos) |-> deploymentInfos[k].deployment]
        /\ \A s \in 1..Len(deploymentSections) :
            /\ Len(deploymentSections[s].deployments) >= 1
            /\ deploymentSections[s].nodes
                    = DeploymentNodes(deploymentInfos[deploymentSections[s].deployments[1].id],
                                      nodesInformation)

\* the entries for n1, n2 and for n2, n1 were merged into one section on n1, n2
C26_Witness ==
    /\ mainPc = "sections"
    /\ nodesInformation = <<n1, n2, n10>>
    /\ Len(deploymentInfos) = 3
    /\ deploymentInfos[1].nodes = <<n1, n2>>
    /\ deploymentInfos[2].nodes = <<n2, n1>>
    /\ deploymentInfos[3].nodes = <<>>
    /\ Len(deploymentSections) = 2
    /\ Len(deploymentSections[1].deployments) = 2
    /\ deploymentSections[1].nodes = <<n1, n2>>

\* C32 (as claimed): whatever the target lists name, the node list of a section holds
\* each node at most once, so that deploy() runs each task once per node.
C32_NodesOncePerSection ==
    mainPc = "sections" =>
        \A s \in 1..Len(deploymentSections) : DistinctNames(deploymentSections[s].nodes)

----------------------------------------------------------------------------
(* Properties of main(), checked under SpecMain *)

\* C10 (as claimed): a section with an empty node list is skipped: no run of a
\* task of the section is invoked and main() goes on to the next section.
C10_EmptySectionSkipped ==
    (/\ mainPc \in {"deploying", "raised"}
     /\ deploymentSections[sectionIndex].nodes = <<>>)
    => /\ \A t \in 1..Len(clusterRan) : clusterRan[t] = 0
       /\ pc # "raised"
       /\ mainPc # "raised"

\* C15: plan driver. deploy() is called for the sections in plan order, each
\* call after the one before has returned; a section whose ledger reports
\* errors is the last one deployed and main() returns its error count; main()
\* returns 0 only when every section was deployed and each reported no error.
C15_PlanDriver ==
    /\ deployCalls = [k \in 1..Len(deployCalls) |-> k]
    /\ Len(deployCalls) <= Len(deploymentSections)
    /\ Len(deployCalls) - Len(sectionErrors) \in {0, 1}
    /\ (Len(deployCalls) > Len(sectionErrors)) =>
            /\ mainPc \in {"deploying", "raised"}
            /\ deployments = deploymentSections[deployCalls[Len(deployCalls)]].deployments
    /\ \A k \in 1..Len(sectionErrors) :
            sectionErrors[k] > 0 =>
                /\ k = Len(sectionErrors)
                /\ k = Len(deployCalls)
                /\ mainPc = "exit"
                /\ pc = "returned"
                /\ exitCode = sectionErrors[k]
    /\ (mainPc = "exit" /\ exitCode # 0) =>
            /\ sectionErrors # <<>>
            /\ exitCode = sectionErrors[Len(sectionErrors)]
            /\ exitCode > 0
    /\ exitCode = 0 =>
            /\ Len(sectionErrors) = Len(deploymentSections)
            /\ \A k \in 1..Len(sectionErrors) : sectionErrors[k] = 0

\* a plan of two sections: the first failed on two nodes, main() returned 2 and
\* the second section was never deployed
C15_Witness ==
    /\ mainPc = "exit"
    /\ Len(deploymentSections) = 2
    /\ deployCalls = <<1>>
    /\ sectionErrors = <<2>>
    /\ exitCode = 2
    /\ \A i \in 1..Len(clientState) : clientState[i] = "closed"

----------------------------------------------------------------------------
(* Properties of NodesInfoMap, checked under SpecRegistry *)

\* the registered nodes whose short name is the given name
Sharing(shortName) == {name \in NameSet(nodesInformation) : ShortName(name) = shortName}

Resolvable(name) == name \in NameSet(nodesInformation) \/ Sharing(name) # {}

\* the place in the result of the k-th requested name, when it is resolvable
Slot(k) == Cardinality({j \in 1..k : Resolvable(resolved.names[j])})

\* C11: short-name resolution. A requested name that is not registered itself
\* but is the short name of registered nodes resolves to the one of them whose
\* full name is least in string order, whatever the order of the add calls; a
\* node that shares its short name with others is returned for its full name.
C11_ShortNameResolution ==
    resolved.called =>
        \A k \in 1..Len(resolved.names) :
            LET name == resolved.names[k]
            IN  /\ (name \notin NameSet(nodesInformation) /\ Sharing(name) # {}) =>
                        /\ Slot(k) \in 1..Len(resolved.nodes)
                        /\ resolved.nodes[Slot(k)].name \in Sharing(name)
                        /\ \A other \in Sharing(name) \ {resolved.nodes[Slot(k)].name} :
                                StringLess(resolved.nodes[Slot(k)].name, other)
                /\ (name \in NameSet(nodesInformation) /\ Cardinality(Sharing(ShortName(name))) > 1) =>
                        /\ Slot(k) \in 1..Len(resolved.nodes)
                        /\ resolved.nodes[Slot(k)].name = name

\* n3.e was added before n3.d, and n3 resolved to n3.d
C11_Witness ==
    /\ resolved.called
    /\ nodesInformation = <<n3e, n3d>>
    /\ resolved.names = <<n3>>
    /\ Len(resolved.nodes) = 1
    /\ resolved.nodes[1].name = n3d

\* C12: exact match first. A requested name that a node is registered under
\* yields the record stored for that very node, also when the name is the short
\* name of another node: with n2 and n2.d registered, n2 gives n2 and n2.d gives n2.d.
C12_ExactMatchFirst ==
    resolved.called =>
        \A k \in 1..Len(resolved.names) :
            resolved.names[k] \in NameSet(nodesInformation) =>
                /\ Slot(k) \in 1..Len(resolved.nodes)
                /\ resolved.nodes[Slot(k)] = nodeInfos[resolved.names[k]]

\* n2 and n2.d are registered, the request [n2.d, n2] gave the nodes n2.d and n2
C12_Witness ==
    /\ resolved.called
    /\ {n2, n2d} \subseteq NameSet(nodesInformation)
    /\ resolved.names = <<n2d, n2>>
    /\ Len(resolved.nodes) = 2
    /\ resolved.nodes[1].name = n2d
    /\ resolved.nodes[2].name = n2

\* C13: unresolvable names are left out. The result has one node per resolvable
\* requested name, in request order, each the node of that name or one that has
\* it as short name; with n2 and n2.d registered [n2, n2.d, n0] gives 2 nodes
\* and [n0] gives none.
C13_UnresolvableOmitted ==
    resolved.called =>
        /\ Len(resolved.nodes) = Slot(Len(resolved.names))
        /\ \A k \in 1..Len(resolved.names) :
                Resolvable(resolved.names[k]) =>
                    /\ Slot(k) \in 1..Len(resolved.nodes)
                    /\ resolved.nodes[Slot(k)].name \in {resolved.names[k]} \cup Sharing(resolved.names[k])
        /\ (NameSet(nodesInformation) = {n2, n2d} /\ resolved.names = <<n2, n2d, n0>>) =>
                Len(resolved.nodes) = 2
        /\ resolved.names = <<n0>> => resolved.nodes = <<>>

\* the request [n0, n3, n2] on a registry with n2 and n3.d gave the nodes n3.d and n2
C13_Witness ==
    /\ resolved.called
    /\ NameSet(nodesInformation) = {n2, n3d}
    /\ resolved.names = <<n0, n3, n2>>
    /\ Len(resolved.nodes) = 2
    /\ resolved.nodes[1].name = n3d
    /\ resolved.nodes[2].name = n2

\* the first node add was called with under a name
FirstAdded(name) ==
    addedNodes[CHOOSE k \in 1..Len(addedNodes) :
                    /\ addedNodes[k].name = name
                    /\ \A j \in 1..Len(addedNodes) : addedNodes[j].name = name => k <= j]

\* C14: add of a registered name changes nothing. After any sequence of add
\* calls the registry holds one node per distinct name added, and under each
\* name the addresses and password of the first node added with that name.
C14_AddIsNoOpWhenRegistered ==
    /\ Len(nodesInformation) = Cardinality({addedNodes[k].name : k \in 1..Len(addedNodes)})
    /\ DistinctNames(nodesInformation)
    /\ NameSet(nodesInformation) = {addedNodes[k].name : k \in 1..Len(addedNodes)}
    /\ DOMAIN nodeInfos = NameSet(nodesInformation)
    /\ \A name \in DOMAIN nodeInfos :
            /\ nodeInfos[name].name = name
            /\ nodeInfos[name].public_ips = FirstAdded(name).public_ips
            /\ nodeInfos[name].private_ips = FirstAdded(name).private_ips
            /\ nodeInfos[name].extra = FirstAdded(name).extra

\* n2 was added with a password, then again without one, then n2.d: two nodes, n2 keeps its password
C14_Witness ==
    /\ Len(addedNodes) = 3
    /\ addedNodes[1].name = n2 /\ addedNodes[1].extra # <<>>
    /\ addedNodes[2].name = n2 /\ addedNodes[2].extra = <<>>
    /\ addedNodes[3].name = n2d
    /\ Len(nodesInformation) = 2
    /\ nodeInfos[n2].extra = [password |-> "password"]

----------------------------------------------------------------------------
(* Properties of the plan loader, checked under SpecLoader *)

\* C19: DSL equivalence in DeploymentInfos.fromHjson: the shorthand text and the
\* canonical text of a plan load to the same ordered list of (task type,
\* parameters, target node names).
C19_DslEquivalence ==
    (loadResults.canonical.done /\ loadResults.shorthand.done)
        => loadResults.shorthand = loadResults.canonical

\* the task type of the entry cannot be resolved
Unresolvable(entry) == entry.name \notin DOMAIN Classes

\* a required constructor parameter of the entry's task is not among its parameters
MissingRequired(entry) ==
    /\ entry.name \in DOMAIN Classes
    /\ LET handlerArgSpec == Classes[entry.name]
       IN  \E k \in 1..(Len(handlerArgSpec.args) - Len(handlerArgSpec.defaults)) :
                ~HasKey(entry.parameters, handlerArgSpec.args[k])

\* loading the entry on its own raises
Fails(entry) == DeploymentInfo_fromHjsonSerializable(EntryDict(entry)).raised

\* the target names of an entry
TargetNames(entry) ==
    IF HasKey(entry.parameters, <<"deploymentNodes">>)
    THEN ValueOf([k \in 1..Len(entry.parameters) |->
                    [key |-> entry.parameters[k].key, value |-> entry.parameters[k].words]],
                 <<"deploymentNodes">>)
    ELSE <<>>

\* C20: best-effort plan loading in DeploymentInfos.fromHjsonSerializable: an entry
\* whose task type cannot be resolved or whose required constructor parameters are
\* missing is dropped, and the loaded list is the input list without the failing
\* entries, in the original order: the load itself never raises.
C20_BestEffortLoading ==
    loadResults.serializable.done =>
        LET loaded == loadResults.serializable.deployments
            kept == SelectSeq(hjsonPlan, LAMBDA entry : ~Fails(entry))
        IN  /\ ~loadResults.serializable.raised
            /\ \A k \in 1..Len(hjsonPlan) :
                    (Unresolvable(hjsonPlan[k]) \/ MissingRequired(hjsonPlan[k])) => Fails(hjsonPlan[k])
            /\ Len(loaded) = Len(kept)
            /\ \A k \in 1..Len(kept) :
                    /\ loaded[k].deployment.cls = kept[k].name
                    /\ loaded[k].nodes = TargetNames(kept[k])
                    /\ loaded[k] = DeploymentInfo_fromHjsonSerializable(EntryDict(kept[k])).info

\* a plan of three entries was loaded: the first has no resolvable type, the third
\* lacks a required parameter, and the one between them is the loaded list
C20_Witness ==
    /\ loadResults.serializable.done
    /\ Len(hjsonPlan) = 3
    /\ Unresolvable(hjsonPlan[1])
    /\ ~Fails(hjsonPlan[2])
    /\ MissingRequired(hjsonPlan[3])
    /\ Len(loadResults.serializable.deployments) = 1

\* the parameter is one the constructor of the entry's task has: a named argument, the
\* variadic argument, or any name when the constructor takes keywords; the target list
\* is a parameter of the plan entry itself
Matches(entry, parameter) ==
    \/ parameter.key = <<"deploymentNodes">>
    \/ /\ entry.name \in DOMAIN Classes
       /\ LET handlerArgSpec == Classes[entry.name]
          IN  \/ parameter.key \in NameSet(handlerArgSpec.args)
              \/ parameter.key = handlerArgSpec.varargs
              \/ handlerArgSpec.keywords # <<>>

\* the plan without the parameters no constructor has
WithoutUnknown(plan) ==
    [k \in 1..Len(plan) |->
        [plan[k] EXCEPT !.parameters =
            SelectSeq(plan[k].parameters, LAMBDA parameter : Matches(plan[k], parameter))]]

\* C21: a parameter that matches no constructor field of its task does not make the
\* construction fail, and the plan loads to exactly the tasks it loads to without it.
C21_UnknownParameterDropped ==
    loadResults.serializable.done
        => loadResults.serializable
             = DeploymentInfos_fromHjsonSerializable(PlanDict(WithoutUnknown(hjsonPlan)))

\* a loaded plan whose only entry has the parameter comment, which AddKnownHost does not have
C21_Witness ==
    /\ loadResults.serializable.done
    /\ Len(hjsonPlan) = 1
    /\ hjsonPlan[1].name = <<"ssh", ".", "AddKnownHost">>
    /\ \E k \in 1..Len(hjsonPlan[1].parameters) : hjsonPlan[1].parameters[k].key = <<"comment">>
    /\ Len(loadResults.serializable.deployments) = 1

\* the task of the entry has a variadic constructor
Variadic(name) == name \in DOMAIN Classes /\ Classes[name].varargs # <<>>

\* the items of the entry's list-valued parameter that matches no named constructor
\* field, no item when the entry has no such parameter
ListItems(entry) ==
    LET lists == SelectSeq(entry.parameters,
                           LAMBDA parameter : /\ parameter.list
                                              /\ parameter.key # <<"deploymentNodes">>
                                              /\ parameter.key \notin NameSet(Classes[entry.name].args))
    IN  IF lists = <<>> THEN <<>>
        ELSE [k \in 1..Len(lists[1].words) |-> Value("str", lists[1].words[k])]

\* C27: a list-valued parameter that matches no named constructor field is bound to the
\* variadic parameter of the task; without such a list the task is still constructed,
\* with no extra positional argument.
C27_VariadicBinding ==
    loadResults.serializable.done
        => LET loaded == SelectSeq(loadResults.serializable.deployments,
                                   LAMBDA info : Variadic(info.deployment.cls))
               entries == SelectSeq(hjsonPlan, LAMBDA entry : Variadic(entry.name))
           IN  /\ Len(loaded) = Len(entries)
               /\ \A k \in 1..Len(entries) :
                    k <= Len(loaded) => loaded[k].deployment.arguments = ListItems(entries[k])

\* the tokens of the entry the token loop has to emit for a plan entry: the name with
\* ": {}" for an entry without parameters, else the tokens of the entry as written
EntryTokens(entry, way) ==
    IF entry.parameters = <<>> THEN <<entry.name \o <<":">>, <<"{", "}">>>>
    ELSE Words(entryText(entry, way))

\* C25: the token loop over a plan in syntax 2 emits one entry per plan entry, in source
\* order: a bare token as an entry without parameters, a task name with its parameter
\* object as one entry when the brace depth is back at zero; no token is lost or
\* emitted twice.
C25_TokenLoop ==
    \A way \in DOMAIN tokenLoop :
        loadResults[way].done
            => /\ ~tokenLoop[way].raised
               /\ Len(tokenLoop[way].deploymentItems) = Len(hjsonPlan)
               /\ \A k \in 1..Len(hjsonPlan) :
                    Words(tokenLoop[way].deploymentItems[k]) = EntryTokens(hjsonPlan[k], way)

\* the plan without the target lists that are empty
WithoutEmptyTargets(plan) ==
    [k \in 1..Len(plan) |->
        [plan[k] EXCEPT !.parameters =
            SelectSeq(plan[k].parameters,
                      LAMBDA parameter : ~(parameter.key = <<"deploymentNodes">> /\ parameter.words = <<>>))]]

\* C33 (as claimed): an entry with an empty target list is treated exactly like an entry
\* without target list: the plan loads to what it loads to without the empty lists, the
\* loaded entry has no nodes, and in every registry it resolves to all registered
\* nodes; in a registry that has nodes only an entry with a non-empty target list
\* resolves to no node.
C33_EmptyTargetList ==
    \A way \in {"canonical", "serializable"} :
        loadResults[way].done =>
            /\ loadResults[way]
                 = DeploymentInfos_fromHjsonSerializable(PlanDict(WithoutEmptyTargets(hjsonPlan)))
            /\ \A k \in 1..Len(loadResults[way].deployments) : \A registry \in RegistryChoices :
                    LET info == loadResults[way].deployments[k]
                    IN  /\ info.nodes = <<>> => DeploymentNodes(info, registry) = registry
                        /\ (registry # <<>> /\ DeploymentNodes(info, registry) = <<>>)
                                => info.nodes # <<>>

----------------------------------------------------------------------------
(* Properties of Timer, checked under SpecTimer *)

\* C24 (as claimed): a Timer made with repeat 3 that runs to its end has called its
\* function three times, after the initial wait and then after one interval each; a
\* Timer with a repeat of 0 or more comes to an end; a Timer with repeat -1 never
\* leaves its loop.
C24_TimerCalls ==
    /\ []((timer.pc = "returned" /\ timer.given = 3) =>
            timer.calls = <<timer.initial, timer.initial + timer.interval,
                            timer.initial + 2 * timer.interval>>)
    /\ [](timer.given >= 0 => <>(timer.pc \in {"returned", "forced exit", "exiting"}))
    /\ [](timer.given < 0 => timer.pc # "returned")

----------------------------------------------------------------------------
(* Properties of the ssh tasks, checked under SpecSsh *)

\* the lines of the task's file that are the task's key, or an entry of the task's host
EntryLines(self, files) ==
    IF self.cls = "AddAuthorizedKey"
    THEN SelectSeq(splitlines(files.authorized_keys.content),
                   LAMBDA line : line = SelectSeq(self.publicKey, LAMBDA c : c # "\n"))
    ELSE SelectSeq(splitlines(files.known_hosts.content),
                   LAMBDA line : line = self.host \o <<" ">> \o self.hostPublicKey)

\* C23 (as claimed): a task run a second time, after a first run that succeeded, succeeds
\* again and leaves its file as it was, so the key or host entry is in the file once.
C23_Idempotence ==
    \A k \in 2..Len(taskRuns) :
        (taskRuns[k].task = taskRuns[k - 1].task /\ ~taskRuns[k - 1].raised)
            => /\ ~taskRuns[k].raised
               /\ taskRuns[k].after = taskRuns[k].before
               /\ Len(EntryLines(taskRuns[k].task, taskRuns[k].after)) = 1

\* C38 (as claimed): a run of AddKnownHost for host h that found no line of known_hosts
\* to be an entry for exactly h (no line whose first word is h) appended the entry of h.
C38_ExactHostMatch ==
    \A k \in 1..Len(taskRuns) :
        LET self == taskRuns[k].task
            before == taskRuns[k].before.known_hosts.content
            after == taskRuns[k].after.known_hosts.content
            knownHostEntry == self.host \o <<" ">> \o self.hostPublicKey
            FirstWord(line) ==
                IF \E j \in 1..Len(line) : line[j] = " "
                THEN SubSeq(line, 1, (CHOOSE j \in 1..Len(line) :
                                        line[j] = " " /\ \A i \in 1..(j - 1) : line[i] # " ") - 1)
                ELSE line
        IN  (/\ self.cls = "AddKnownHost"
             /\ ~taskRuns[k].raised
             /\ \A j \in 1..Len(splitlines(before)) : FirstWord(splitlines(before)[j]) # self.host)
            => /\ Len(after) >= Len(before) + Len(knownHostEntry)
               /\ SubSeq(after, 1, Len(before) + Len(knownHostEntry)) = before \o knownHostEntry

----------------------------------------------------------------------------
(* Properties of RemoteTemporaryDirectory, checked under SpecDirectory *)

\* how often the client ran the remove command for the directory
Removals(directory) ==
    Cardinality({k \in 1..Len(temporaryDirectory.commands) :
                    /\ temporaryDirectory.commands[k].cmd = "rm"
                    /\ temporaryDirectory.commands[k].directory = directory})

\* C31: a with statement that ended has, when its directory was created and delete is
\* true, run the remove command for that directory exactly once, whether its body
\* returned or raised; the exception of a body that raised is raised by the
\* statement, a body that returned raises nothing; when the directory could not be
\* created the statement raised the RuntimeError of __enter__, the body did not run
\* and nothing was removed. The body runs only in a directory that was created and
\* is not removed before the body ended.
C31_DirectoryReleased ==
    /\ \A k \in 1..Len(temporaryDirectory.ended) :
        LET statement == temporaryDirectory.ended[k]
            created == statement.self.tmpDirectory # <<>>
        IN  /\ (created /\ statement.self.delete) =>
                    /\ statement.body \in {"returned", "raised"}
                    /\ Removals(statement.self.tmpDirectory) = 1
            /\ statement.body = "raised" => statement.raised = "exception of the body"
            /\ statement.body = "returned" => statement.raised = "nothing"
            /\ ~created =>
                    /\ statement.body = "not run"
                    /\ statement.raised = "RuntimeError"
    /\ temporaryDirectory.pc \in {"body", "exit"} =>
            /\ temporaryDirectory.self.tmpDirectory \in temporaryDirectory.directories
            /\ Removals(temporaryDirectory.self.tmpDirectory) = 0

\* three statements ended: the body of the first raised and its directory was removed,
\* the directory of the second could not be created, the body of the third returned
C31_Witness ==
    /\ Len(temporaryDirectory.ended) = 3
    /\ temporaryDirectory.ended[1].self.delete
    /\ temporaryDirectory.ended[1].body = "raised"
    /\ temporaryDirectory.ended[1].raised = "exception of the body"
    /\ Removals(temporaryDirectory.ended[1].self.tmpDirectory) = 1
    /\ temporaryDirectory.ended[2].body = "not run"
    /\ temporaryDirectory.ended[3].body = "returned"
    /\ temporaryDirectory.directories = {}

----------------------------------------------------------------------------
(* Properties of the records' nodes, checked under SpecPasswords *)

\* C36: of two runs of the same tasks with the same outcomes on nodes that differ only in
\* their passwords the ledgers are equal, and so are the DeploymentRunErrors raised;
\* the node of every record and of every DeploymentRunError has the name and the
\* addresses of the node it was made for and no password
C36_NoPasswordInLedger ==
    passwordRuns.nodes # <<>> =>
        /\ passwordRuns.results[1] = passwordRuns.results[2]
        /\ passwordRuns.errors[1] = passwordRuns.errors[2]
        /\ \A run \in 1..2 :
            /\ \A s \in 1..Len(passwordRuns.results[run].steps) :
                 \A k \in 1..Len(passwordRuns.nodes[run]) :
                    LET node == passwordRuns.nodes[run][k]
                        record == passwordRuns.results[run].steps[s][node.name]
                    IN  /\ ExtraPassword(record.node) = None
                        /\ record.node.name = node.name
                        /\ record.node.public_ips = node.public_ips
                        /\ record.node.private_ips = node.private_ips
            /\ \A error \in passwordRuns.errors[run] : ExtraPassword(error.node) = None

\* the first node has a password in one run and another in the other, the second has one
\* in the first run only; two tasks ran, the second raised a DeploymentRunError on the first node
C36_Witness ==
    /\ passwordRuns.nodes # <<>>
    /\ ExtraPassword(passwordRuns.nodes[1][1]) = "secret"
    /\ ExtraPassword(passwordRuns.nodes[2][1]) = "other"
    /\ ExtraPassword(passwordRuns.nodes[1][2]) = "secret"
    /\ ExtraPassword(passwordRuns.nodes[2][2]) = None
    /\ Len(passwordRuns.results[1].steps) = 2
    /\ passwordRuns.results[1].steps[1][n1].error = None
    /\ passwordRuns.results[1].steps[2][n1].error = <<"x", "x">>
    /\ passwordRuns.results[1].steps[2][n2].error = None
    /\ passwordRuns.errors[1] # {}

----------------------------------------------------------------------------
(* Properties of EtcHosts, checked under SpecEtcHosts *)

\* the ips whose entry holds the alias
IpsOf(self, alias) == {self[k].ip : k \in {j \in 1..Len(self) : alias \in self[j].aliases}}

\* C37: after every add(alias, ip, replace=True) the alias is in the entry of the given
\* ip and of no other, so every alias that was added is in at most one entry; an
\* entry the add took its last alias from is gone; an add of an alias the entry of
\* the ip held already returned None and left the object as it was
C37_AliasUnderOneIp ==
    /\ \A c \in 1..Len(etcHosts.calls) :
        LET call == etcHosts.calls[c]
            after == IF c < Len(etcHosts.calls) THEN etcHosts.calls[c + 1].before
                     ELSE etcHosts.self
        IN  /\ IpsOf(after, call.alias) = {call.ip}
            /\ \A k \in 1..Len(call.before) :
                    (call.before[k].aliases = {call.alias} /\ call.before[k].ip # call.ip)
                        => ~HasIp(after, call.before[k].ip)
            /\ (HasIp(call.before, call.ip) /\ call.alias \in AliasesOf(call.before, call.ip))
                    => (call.returned = None /\ after = call.before)
    /\ \A c \in 1..Len(etcHosts.calls) :
            Cardinality(IpsOf(etcHosts.self, etcHosts.calls[c].alias)) <= 1

====
